---------------------------- MODULE Spec2Model ----------------------------
(***************************************************************************)
(* Temporal intent and scheduling engine of the WhatsApp personal          *)
(* assistant: the reminder time parser, the intent tables, the goal        *)
(* categoriser and the reminder / goal lifecycle on top of the job         *)
(* scheduler, as implemented in src/mvp_bot.py and src/appv1.py.           *)
(*                                                                         *)
(* Texts are TLA+ strings handled character by character (Len, SubSeq,     *)
(* \o), so substring tests and regular-expression searches are computed    *)
(* the way Python computes them.  Instants are minutes since 00:00 of day  *)
(* 0 in the recipient's time zone.                                         *)
(***************************************************************************)
EXTENDS Integers, Sequences, FiniteSets, TLC

VARIABLES
    now,            \* wall clock read by datetime.now(...)
    app,            \* which of the two applications is deployed
    USE_AI,         \* mvp_bot.py: OpenAI key configured
    users,          \* mvp_bot.py: table users, phone_number -> row
    reminders,      \* mvp_bot.py: table reminders (AUTOINCREMENT id = index)
    goals,          \* mvp_bot.py: table goals (AUTOINCREMENT id = index)
    conversations,  \* mvp_bot.py: number of rows of table conversations
    redis,          \* appv1.py: user:<phone> and reminder:<phone>:<job id> hashes
    jobs,           \* job store of the BackgroundScheduler
    sent,           \* invocations of scheduled payloads, in order
    reply,          \* reply of the last webhook request
    threads,        \* appv1.py: request threads inside an operation of UserSession
    started_at,     \* clock reading at which the running process was started
    arg,            \* the request, or the argument of a pure function
    ret             \* the HTTP status, or the result of the pure function

vars == <<now, app, USE_AI, users, reminders, goals, conversations, redis,
          jobs, sent, reply, threads, started_at, arg, ret>>

store_vars == <<users, reminders, goals, conversations, redis, jobs, sent, reply,
                threads, started_at>>

-----------------------------------------------------------------------------
(* Python str and re primitives                                            *)

UpperAlpha == "ABCDEFGHIJKLMNOPQRSTUVWXYZ"
LowerAlpha == "abcdefghijklmnopqrstuvwxyz"
Digits == "0123456789"

\* s[i] as a one-character string
Char(s, i) == SubSeq(s, i, i)

UpperChars == {Char(UpperAlpha, k) : k \in 1..Len(UpperAlpha)}
LowerChars == {Char(LowerAlpha, k) : k \in 1..Len(LowerAlpha)}
DigitChars == {Char(Digits, k) : k \in 1..Len(Digits)}

\* c.lower() for an upper-case letter, int(c) for a digit
LowerOf == [c \in UpperChars |->
              Char(LowerAlpha, CHOOSE k \in 1..Len(UpperAlpha) : Char(UpperAlpha, k) = c)]
DigitOf == [c \in DigitChars |->
              (CHOOSE k \in 1..Len(Digits) : Char(Digits, k) = c) - 1]

LowerChar(c) == IF c \in UpperChars THEN LowerOf[c] ELSE c

\* str.lower()
RECURSIVE LowerFrom(_, _)
LowerFrom(s, i) ==
    IF i > Len(s) THEN ""
    ELSE LowerChar(Char(s, i)) \o LowerFrom(s, i + 1)

Lower(s) == LowerFrom(s, 1)

\* s[i:].startswith(w)
StartsAt(s, i, w) ==
    /\ i >= 1
    /\ i + Len(w) - 1 <= Len(s)
    /\ SubSeq(s, i, i + Len(w) - 1) = w

\* w in s
Contains(s, w) == \E i \in 1..(Len(s) - Len(w) + 1) : StartsAt(s, i, w)

\* any(w in s for w in ws), ws a tuple of strings
ContainsAny(s, ws) == \E k \in 1..Len(ws) : Contains(s, ws[k])

IsDigit(c) == c \in DigitChars
IsSpace(c) == c \in {" ", "\n", "\t"}

\* first index >= i whose character is not matched by \s (Len(s)+1 if none)
RECURSIVE SkipSpaces(_, _)
SkipSpaces(s, i) ==
    IF i <= Len(s) /\ IsSpace(Char(s, i)) THEN SkipSpaces(s, i + 1) ELSE i

\* first index >= i whose character is not matched by \d (Len(s)+1 if none)
RECURSIVE SkipDigits(_, _)
SkipDigits(s, i) ==
    IF i <= Len(s) /\ IsDigit(Char(s, i)) THEN SkipDigits(s, i + 1) ELSE i

\* int(d) for a string of digits
RECURSIVE ToInt(_)
ToInt(d) ==
    IF Len(d) = 0 THEN 0
    ELSE 10 * ToInt(SubSeq(d, 1, Len(d) - 1)) + DigitOf[Char(d, Len(d))]

\* index of the first alternative of alts that s has at position i, 0 if none
RECURSIVE FirstAlt(_, _, _, _)
FirstAlt(s, i, alts, k) ==
    IF k > Len(alts) THEN 0
    ELSE IF StartsAt(s, i, alts[k]) THEN k
    ELSE FirstAlt(s, i, alts, k + 1)

NoMatch == [ok |-> FALSE]


-----------------------------------------------------------------------------
(* Python re.sub / str.replace / str.split as used by the task extraction   *)

IsWordChar(c) == c \in UpperChars \cup LowerChars \cup DigitChars \cup {"_"}

IsUpper(c) == c \in UpperChars

\* \b at the gap before position i of s
Boundary(s, i) ==
    LET before == i > 1 /\ i - 1 <= Len(s) /\ IsWordChar(Char(s, i - 1))
        after == i >= 1 /\ i <= Len(s) /\ IsWordChar(Char(s, i))
    IN before # after

\* the first word of the alternation ws that the matching text mt (s itself, or
\* its lower case under re.IGNORECASE) has as \b(w)\b at position i, 0 if none
RECURSIVE WordAt(_, _, _, _)
WordAt(mt, i, ws, k) ==
    IF k > Len(ws) THEN 0
    ELSE IF /\ StartsAt(mt, i, ws[k])
            /\ Boundary(mt, i)
            /\ Boundary(mt, i + Len(ws[k]))
    THEN k
    ELSE WordAt(mt, i, ws, k + 1)

RECURSIVE SubWordsFrom(_, _, _, _, _)
SubWordsFrom(s, mt, i, ws, rep) ==
    IF i > Len(s) THEN ""
    ELSE LET k == WordAt(mt, i, ws, 1)
         IN IF k > 0
            THEN rep \o SubWordsFrom(s, mt, i + Len(ws[k]), ws, rep)
            ELSE Char(s, i) \o SubWordsFrom(s, mt, i + 1, ws, rep)

\* re.sub(r'\b(w1|w2|...)\b', rep, s); with flags=re.IGNORECASE when ic, the
\* words being written in lower case
SubWords(s, ws, rep, ic) ==
    SubWordsFrom(s, IF ic THEN Lower(s) ELSE s, 1, ws, rep)

\* s.replace(old, new) for a non-empty old
RECURSIVE ReplaceFrom(_, _, _, _)
ReplaceFrom(s, i, old, new) ==
    IF i > Len(s) THEN ""
    ELSE IF StartsAt(s, i, old)
    THEN new \o ReplaceFrom(s, i + Len(old), old, new)
    ELSE Char(s, i) \o ReplaceFrom(s, i + 1, old, new)

Replace(s, old, new) == IF Len(old) = 0 THEN s ELSE ReplaceFrom(s, 1, old, new)

\* s.find(w) as a 1-based position, 0 when absent
RECURSIVE FindFrom(_, _, _)
FindFrom(s, w, i) ==
    IF i + Len(w) - 1 > Len(s) THEN 0
    ELSE IF StartsAt(s, i, w) THEN i
    ELSE FindFrom(s, w, i + 1)

\* ' '.join(s.split())
RECURSIVE JoinSplitFrom(_, _, _)
JoinSplitFrom(s, i, started) ==
    LET a == SkipSpaces(s, i)
    IN IF a > Len(s) THEN ""
       ELSE (IF started THEN " " ELSE "") \o Char(s, a)
            \o (IF a + 1 <= Len(s) /\ ~IsSpace(Char(s, a + 1))
                THEN JoinSplitFrom(s, a + 1, FALSE)
                ELSE JoinSplitFrom(s, a + 1, TRUE))

JoinSplit(s) == JoinSplitFrom(s, 1, FALSE)

-----------------------------------------------------------------------------
(* mvp_bot.py: PersonalAssistant.parse_reminder                             *)

MINUTES_PER_HOUR == 60
MINUTES_PER_DAY == 1440

\* now.replace(hour=0, minute=0, second=0, microsecond=0)
Midnight(t) == (t \div MINUTES_PER_DAY) * MINUTES_PER_DAY

RelativeUnits == <<"hour", "minute", "min", "hr">>
Meridiems == <<"am", "pm", "AM", "PM">>

\* r'in\s+(\d+)\s*(hour|minute|min|hr)s?' tried at position i
relative_match_at(s, i) ==
    IF ~StartsAt(s, i, "in") THEN NoMatch
    ELSE LET b == SkipSpaces(s, i + 2)
             c == SkipDigits(s, b)
             d == SkipSpaces(s, c)
             u == FirstAlt(s, d, RelativeUnits, 1)
         IN IF b > i + 2 /\ c > b /\ u > 0
            THEN LET e == d + Len(RelativeUnits[u])
                     last == IF StartsAt(s, e, "s") THEN e ELSE e - 1
                 IN [ok |-> TRUE,
                     amount |-> ToInt(SubSeq(s, b, c - 1)),
                     unit |-> RelativeUnits[u],
                     group0 |-> SubSeq(s, i, last)]
            ELSE NoMatch

RECURSIVE relative_search(_, _)
relative_search(s, i) ==
    IF i > Len(s) THEN NoMatch
    ELSE LET m == relative_match_at(s, i)
         IN IF m.ok THEN m ELSE relative_search(s, i + 1)

\* re.search(r'in\s+(\d+)\s*(hour|minute|min|hr)s?', text_lower)
relative_match(text_lower) == relative_search(text_lower, 1)

\* r'at\s+(\d{1,2})\s*(am|pm|AM|PM)' tried at position i
time_match_at(s, i) ==
    IF ~StartsAt(s, i, "at") THEN NoMatch
    ELSE LET b == SkipSpaces(s, i + 2)
             c == SkipDigits(s, b)
             d == SkipSpaces(s, c)
             u == FirstAlt(s, d, Meridiems, 1)
         IN IF b > i + 2 /\ c > b /\ c - b <= 2 /\ u > 0
            THEN [ok |-> TRUE,
                  hour |-> ToInt(SubSeq(s, b, c - 1)),
                  period |-> Meridiems[u],
                  group0 |-> SubSeq(s, i, d + 1)]
            ELSE NoMatch

RECURSIVE time_search(_, _)
time_search(s, i) ==
    IF i > Len(s) THEN NoMatch
    ELSE LET m == time_match_at(s, i)
         IN IF m.ok THEN m ELSE time_search(s, i + 1)

\* re.search(r'at\s+(\d{1,2})\s*(am|pm|AM|PM)', text)
time_match(text) == time_search(text, 1)

\* the hour handed to now.replace(hour=...)
hour24(hour, period) ==
    IF period = "pm" /\ hour # 12 THEN hour + 12
    ELSE IF period = "am" /\ hour = 12 THEN 0
    ELSE hour

\* "if relative_match: ... task = text[that_index + 6:] ... else: task =
\* task.replace(relative_match.group(0), '')"
strip_relative(task, text, text_lower, rm) ==
    IF rm.ok
    THEN IF Contains(text_lower, " that ")
         THEN SubSeq(text, FindFrom(text_lower, " that ", 1) + 6, Len(text))
         ELSE Replace(task, rm.group0, "")
    ELSE task

\* "if time_match: task = task.replace(time_match.group(0), ''); task =
\* re.sub(r'\bat\b', '', task, flags=re.IGNORECASE)"
strip_time(task, tm) ==
    IF tm.ok THEN SubWords(Replace(task, tm.group0, ""), <<"at">>, "", TRUE)
    ELSE task

\* "if task and not task[0].isupper() or task.startswith('You'): task =
\* task[0].lower() + task[1:] if len(task) > 1 else task.lower()"
lower_first(task) ==
    IF \/ (Len(task) > 0 /\ ~IsUpper(Char(task, 1)))
       \/ StartsAt(task, 1, "You")
    THEN IF Len(task) > 1
         THEN LowerChar(Char(task, 1)) \o SubSeq(task, 2, Len(task))
         ELSE Lower(task)
    ELSE task

\* "task if task else 'your reminder'"
task_or_default(task) == IF Len(task) = 0 THEN "your reminder" ELSE task

\* the "Extract task" part of parse_reminder
extract_task(text, rm, tm) ==
    task_or_default(lower_first(
        SubWords(SubWords(SubWords(
            JoinSplit(SubWords(
                strip_time(strip_relative(SubWords(text, <<"remind", "me">>, "", TRUE),
                                          text, Lower(text), rm),
                           tm),
                <<"tomorrow", "today", "to">>, "", TRUE)),
            <<"I">>, "you", FALSE),
            <<"my">>, "your", TRUE),
            <<"me">>, "you", TRUE)))

\* the instant of the relative branch
relative_time(rm, t) ==
    IF Contains(rm.unit, "hour") \/ Contains(rm.unit, "hr")
    THEN t + rm.amount * MINUTES_PER_HOUR
    ELSE t + rm.amount

\* the instant of the absolute branch (hour already in 24-hour form, <= 23)
absolute_time(hour, text_lower, t) ==
    LET reminder_time == Midnight(t) + hour * MINUTES_PER_HOUR
    IN IF Contains(text_lower, "tomorrow") THEN reminder_time + MINUTES_PER_DAY
       ELSE IF reminder_time <= t THEN reminder_time + MINUTES_PER_DAY
       ELSE reminder_time

\* a parse_reminder whose branches are tested in the other order
parse_reminder_absolute_first(text, t) ==
    LET text_lower == Lower(text)
        tm == time_match(text)
        rm == relative_match(text_lower)
    IN IF tm.ok
       THEN LET hour == hour24(tm.hour, Lower(tm.period))
            IN IF hour > 23
               THEN [kind |-> "raise", time |-> 0, task |-> ""]
               ELSE [kind |-> "ok", time |-> absolute_time(hour, text_lower, t),
                     task |-> extract_task(text, rm, tm)]
       ELSE IF rm.ok
       THEN [kind |-> "ok", time |-> relative_time(rm, t),
             task |-> extract_task(text, rm, tm)]
       ELSE [kind |-> "none", time |-> 0, task |-> ""]

\* parse_reminder(text) read at clock t: kind "ok" with (time, task), "none" for
\* (None, None), "raise" when now.replace(hour=...) raises ValueError
parse_reminder(text, t) ==
    LET text_lower == Lower(text)
        tm == time_match(text)
        rm == relative_match(text_lower)
    IN IF rm.ok
       THEN [kind |-> "ok", time |-> relative_time(rm, t),
             task |-> extract_task(text, rm, tm)]
       ELSE IF tm.ok
       THEN LET hour == hour24(tm.hour, Lower(tm.period))
            IN IF hour > 23
               THEN [kind |-> "raise", time |-> 0, task |-> ""]
               ELSE [kind |-> "ok", time |-> absolute_time(hour, text_lower, t),
                     task |-> extract_task(text, rm, tm)]
       ELSE [kind |-> "none", time |-> 0, task |-> ""]

-----------------------------------------------------------------------------
(* appv1.py: ReminderService.parse_reminder                                 *)

\* A Devanagari code point is written "~" + one lower-case letter or digit, so a
\* Hindi keyword keeps its length in code points and shares no character
\* sequence with an English one.
HI_BAJE == "~w~x~f"
HI_KAL == "~q~h"
HI_YAAD == "~k~j~r"

\* r'(\d{1,2})\s*(am|pm|AM|PM)' (en) or r'(\d{1,2})\s*<baje>' (hi) at position i
v1_time_match_at(s, i, lang) ==
    IF ~(i <= Len(s) /\ IsDigit(Char(s, i))) THEN NoMatch
    ELSE LET c == IF i + 1 <= Len(s) /\ IsDigit(Char(s, i + 1)) THEN i + 2 ELSE i + 1
             d == SkipSpaces(s, c)
             alts == IF lang = "hi" THEN <<HI_BAJE>> ELSE Meridiems
             u == FirstAlt(s, d, alts, 1)
         IN IF u > 0
            THEN [ok |-> TRUE, hour |-> ToInt(SubSeq(s, i, c - 1)), period |-> alts[u]]
            ELSE NoMatch

RECURSIVE v1_time_search(_, _, _)
v1_time_search(s, i, lang) ==
    IF i > Len(s) THEN NoMatch
    ELSE LET m == v1_time_match_at(s, i, lang)
         IN IF m.ok THEN m ELSE v1_time_search(s, i + 1, lang)

\* the task of ReminderService.parse_reminder
RECURSIVE v1_strip_words(_, _, _)
v1_strip_words(task, ws, k) ==
    IF k > Len(ws) THEN task
    ELSE v1_strip_words(Replace(task, ws[k], ""), ws, k + 1)

\* ReminderService.parse_reminder(text, lang) read at clock t
v1_parse_reminder(text, lang, t) ==
    LET m == v1_time_search(text, 1, lang)
    IN IF ~m.ok THEN [kind |-> "none", time |-> 0, task |-> ""]
       ELSE LET hour == IF lang = "en" /\ Lower(m.period) = "pm" /\ m.hour # 12
                        THEN m.hour + 12 ELSE m.hour
                is_tomorrow == ContainsAny(Lower(text), <<"tomorrow", HI_KAL, "kal">>)
                reminder_time == Midnight(t) + hour * MINUTES_PER_HOUR
            IN IF hour > 23
               THEN [kind |-> "raise", time |-> 0, task |-> ""]
               ELSE [kind |-> "ok",
                     time |-> IF is_tomorrow THEN reminder_time + MINUTES_PER_DAY
                              ELSE reminder_time,
                     task |-> JoinSplit(v1_strip_words(text,
                                <<"remind", HI_YAAD, HI_BAJE, "am", "pm",
                                  "tomorrow", HI_KAL>>, 1))]

-----------------------------------------------------------------------------
(* appv1.py: CalendarService.parse_calendar_command, date and time of the    *)
(* event; the title and the duration are computed from the text alone and   *)
(* do not enter 'datetime'                                                   *)

\* the list 'days'; datetime.weekday() is its index, and minute 0 of the model
\* clock is taken to be a Monday 00:00
days == <<"monday", "tuesday", "wednesday", "thursday", "friday", "saturday", "sunday">>

\* the alternatives of date_match in the order of the pattern ("~g~u" stands
\* for the Hindi word for today)
date_words == <<"tomorrow", HI_KAL, "today", "~g~u">> \o days

\* re.search(r'(tomorrow|...|sunday)', text.lower()).group(1), "" for no match
RECURSIVE date_match_from(_, _)
date_match_from(s, i) ==
    IF i > Len(s) THEN ""
    ELSE IF FirstAlt(s, i, date_words, 1) > 0 THEN date_words[FirstAlt(s, i, date_words, 1)]
    ELSE date_match_from(s, i + 1)

\* re.search(r'(\d{1,2})\s*(am|pm|AM|PM|<baje>)', text)
RECURSIVE calendar_time_from(_, _)
calendar_time_from(s, i) ==
    IF i > Len(s) THEN NoMatch
    ELSE IF v1_time_match_at(s, i, "en").ok THEN v1_time_match_at(s, i, "en")
    ELSE IF v1_time_match_at(s, i, "hi").ok THEN v1_time_match_at(s, i, "hi")
    ELSE calendar_time_from(s, i + 1)

\* "days_ahead = (target_day - current_day) % 7; if days_ahead == 0: days_ahead = 7"
days_ahead(date_word, t) ==
    LET target_day == (CHOOSE k \in 1..Len(days) : days[k] = date_word) - 1
        current_day == (t \div MINUTES_PER_DAY) % 7
        ahead == (target_day - current_day) % 7
    IN IF ahead = 0 THEN 7 ELSE ahead

\* parse_calendar_command(text) read at clock t: kind "ok" with 'datetime', kind
\* "none" for {'success': False} (event_time.replace raised ValueError)
parse_calendar_command(text, t) ==
    LET date_word == date_match_from(Lower(text), 1)
        tm == calendar_time_from(text, 1)
        event_day == IF date_word \in {"tomorrow", HI_KAL} THEN t + MINUTES_PER_DAY
                     ELSE IF date_word \in {"", "today", "~g~u"} THEN t
                     ELSE t + days_ahead(date_word, t) * MINUTES_PER_DAY
        hour == IF ~tm.ok THEN 9
                ELSE IF Lower(tm.period) \in {"pm", HI_BAJE} /\ tm.hour # 12
                THEN tm.hour + 12
                ELSE IF Lower(tm.period) = "am" /\ tm.hour = 12 THEN 0
                ELSE tm.hour
    IN IF hour > 23 THEN [kind |-> "none", time |-> 0]
       ELSE [kind |-> "ok", time |-> Midnight(event_day) + hour * MINUTES_PER_HOUR]

-----------------------------------------------------------------------------
(* appv1.py: detect_intent                                                  *)

\* the intents dict, in insertion order: <<intent, hi keywords, en keywords>>
intents ==
    << <<"greeting",
         <<"~a~b~c~d~e~f", "~g~f~h~i", "~g~j~k", "~g~l~h~i">>,
         <<"hello", "hi", "hey", "namaste">> >>,
       <<"set_name",
         <<"~e~m~b~d~g~j~n~j ~a~j~b", "~o~p~q~j ~a~j~b", "~a~j~b ~g~l">>,
         <<"your name is", "call you", "name you">> >>,
       <<"reminder",
         <<HI_YAAD, "~n~s~b~j~t~u~v~n", HI_BAJE, HI_KAL>>,
         <<"remind", "reminder", "tomorrow", "alarm">> >>,
       <<"schedule",
         <<"~q~j~n~d~k~q~d~n~b", "~o~x", "~q~l~h~f~u~v~n", "~y~f~v~d~k~z~h">>,
         <<"schedule", "calendar", "today", "appointments">> >>,
       <<"recipe",
         <<"~n~f~c~s~p~0", "~1~j~a~j", "~w~a~j~a~j", "~2~d~k~u~x~a">>,
         <<"recipe", "cook", "make", "food", "dish">> >>,
       <<"calendar_add",
         <<"~q~l~h~f~u~v~n ~b~f~u", "~x~i~v~3", "~b~0~4~s~u~5",
           "~y~f~v~d~k~z~h ~q~n~f~u">>,
         <<"add to calendar", "schedule", "add meeting", "calendar">> >> >>

\* keywords.get(lang, keywords['en']) of the intent at table position k
intent_keywords(k, lang) == IF lang = "hi" THEN intents[k][2] ELSE intents[k][3]

\* a detect_intent that keeps scanning and returns the last matching intent
RECURSIVE detect_last_from(_, _, _)
detect_last_from(text_lower, lang, k) ==
    IF k < 1 THEN "unknown"
    ELSE IF ContainsAny(text_lower, intent_keywords(k, lang)) THEN intents[k][1]
    ELSE detect_last_from(text_lower, lang, k - 1)

detect_intent_last(text, lang) == detect_last_from(Lower(text), lang, Len(intents))

\* the loop "for intent, keywords in intents.items()" from position k on
RECURSIVE detect_from(_, _, _)
detect_from(text_lower, lang, k) ==
    IF k > Len(intents) THEN "unknown"
    ELSE IF ContainsAny(text_lower, intent_keywords(k, lang)) THEN intents[k][1]
    ELSE detect_from(text_lower, lang, k + 1)

detect_intent(text, lang) == detect_from(Lower(text), lang, 1)

-----------------------------------------------------------------------------
(* mvp_bot.py: the if/elif chain of PersonalAssistant.process_with_patterns *)

Spaces == {" ", "\n", "\t"}

\* str.strip()
RECURSIVE RStrip(_)
RStrip(s) ==
    IF Len(s) > 0 /\ Char(s, Len(s)) \in Spaces THEN RStrip(SubSeq(s, 1, Len(s) - 1))
    ELSE s

Strip(s) == LET a == SkipSpaces(s, 1) IN RStrip(SubSeq(s, a, Len(s)))

\* the branches in textual order: <<branch, test, words>>; test "any" is
\* any(w in msg_lower for w in words), test "is" is msg_lower in words
\* the branches with the status test after the reminder test
patterns_reminder_before_status ==
    << <<"greeting", "any", <<"hi", "hello", "hey", "start", "help">> >>,
       <<"set_name", "any", <<"i'll call you", "your name is", "call you", "name you">> >>,
       <<"reminder", "any", <<"remind">> >>,
       <<"status", "any", <<"show my reminders", "my reminders", "show reminders",
                             "show status", "my tasks", "what do i have",
                             "whats pending", "pending">> >>,
       <<"confirm", "is", <<"yes", "yeah", "sure", "ok", "set it as a goal",
                            "make it a goal">> >>,
       <<"goal", "any", <<"i want to", "i need to", "my goal", "i have to", "i must">> >>,
       <<"recipe", "any", <<"recipe", "cook", "food", "meal", "dish">> >>,
       <<"completion", "any", <<"done", "completed", "finished", "did it">> >>,
       <<"suggest", "any", <<"what should i do", "bored">> >>,
       <<"morning", "any", <<"good morning", "morning routine", "start my day">> >> >>

patterns ==
    << <<"greeting", "any", <<"hi", "hello", "hey", "start", "help">> >>,
       <<"set_name", "any", <<"i'll call you", "your name is", "call you", "name you">> >>,
       <<"status", "any", <<"show my reminders", "my reminders", "show reminders",
                             "show status", "my tasks", "what do i have",
                             "whats pending", "pending">> >>,
       <<"reminder", "any", <<"remind">> >>,
       <<"confirm", "is", <<"yes", "yeah", "sure", "ok", "set it as a goal",
                            "make it a goal">> >>,
       <<"goal", "any", <<"i want to", "i need to", "my goal", "i have to", "i must">> >>,
       <<"recipe", "any", <<"recipe", "cook", "food", "meal", "dish">> >>,
       <<"completion", "any", <<"done", "completed", "finished", "did it">> >>,
       <<"suggest", "any", <<"what should i do", "bored">> >>,
       <<"morning", "any", <<"good morning", "morning routine", "start my day">> >> >>

\* the condition of the branch at position k
pattern_holds(msg_lower, k) ==
    IF patterns[k][2] = "is"
    THEN \E i \in 1..Len(patterns[k][3]) : msg_lower = patterns[k][3][i]
    ELSE ContainsAny(msg_lower, patterns[k][3])

\* a chain that tests the branches from the last one up
RECURSIVE branch_last_from(_, _)
branch_last_from(msg_lower, k) ==
    IF k < 1 THEN "fallback"
    ELSE IF pattern_holds(msg_lower, k) THEN patterns[k][1]
    ELSE branch_last_from(msg_lower, k - 1)

pattern_branch_last(message) == branch_last_from(Strip(Lower(message)), Len(patterns))

RECURSIVE branch_from(_, _)
branch_from(msg_lower, k) ==
    IF k > Len(patterns) THEN "fallback"
    ELSE IF pattern_holds(msg_lower, k) THEN patterns[k][1]
    ELSE branch_from(msg_lower, k + 1)

\* the branch process_with_patterns(message) takes
pattern_branch(message) == branch_from(Strip(Lower(message)), 1)

\* should_use_ai(message)
should_use_ai(message) ==
    ContainsAny(Lower(message),
                <<"help me", "what should i", "how do i", "advice", "plan",
                  "analyze", "suggest", "recommend", "think about", "strategy",
                  "ideas", "brainstorm", "explain", "why", "understand">>)

-----------------------------------------------------------------------------
(* mvp_bot.py: PersonalAssistant.determine_checkin_schedule                 *)
(* a cadence is the three offsets in minutes (1.5 hours = 90 minutes)       *)

WRITING_WORDS == <<"write", "writing", "essay", "report", "document">>
STUDY_WORDS == <<"study", "learn", "read", "chapter", "course">>
EXERCISE_WORDS == <<"exercise", "workout", "gym", "run", "walk">>
COMMUNICATION_WORDS == <<"call", "email", "contact", "reach out">>

\* a schedule that tests the communication group before the exercise group
checkin_schedule_reordered(goal) ==
    LET goal_lower == Lower(goal)
    IN IF ContainsAny(goal_lower, WRITING_WORDS) THEN <<120, 240, 360>>
       ELSE IF ContainsAny(goal_lower, STUDY_WORDS) THEN <<90, 180, 300>>
       ELSE IF ContainsAny(goal_lower, COMMUNICATION_WORDS) THEN <<60, 120, 240>>
       ELSE IF ContainsAny(goal_lower, EXERCISE_WORDS) THEN <<180, 360, 540>>
       ELSE <<120, 240, 420>>

determine_checkin_schedule(goal) ==
    LET goal_lower == Lower(goal)
    IN IF ContainsAny(goal_lower, WRITING_WORDS) THEN <<120, 240, 360>>
       ELSE IF ContainsAny(goal_lower, STUDY_WORDS) THEN <<90, 180, 300>>
       ELSE IF ContainsAny(goal_lower, EXERCISE_WORDS) THEN <<180, 360, 540>>
       ELSE IF ContainsAny(goal_lower, COMMUNICATION_WORDS) THEN <<60, 120, 240>>
       ELSE <<120, 240, 420>>

-----------------------------------------------------------------------------
(* Inputs of the pure functions: each text is rendered from its parts, the   *)
(* function under study sees the text only                                   *)

MaxAmount == 2
MaxLines == 3

\* str(n) for n >= 0
RECURSIVE Str(_)
Str(n) == IF n < 10 THEN Char(Digits, n + 1)
          ELSE Str(n \div 10) \o Char(Digits, (n % 10) + 1)

NoRel == [n |-> -1, unit |-> ""]
NoAbs == [h |-> -1, period |-> ""]

RelParts == {NoRel} \cup [n : 0..MaxAmount, unit : {"minutes", "hours", "hr"}]
AbsParts == {NoAbs} \cup [h : {9, 12, 13}, period : {"am", "PM"}]

\* "remind me [in N unit] [at H period] [tomorrow] to call mom", either order
Render(rel, abs, tom, rel_first) ==
    LET r == IF rel = NoRel THEN "" ELSE " in " \o Str(rel.n) \o " " \o rel.unit
        a == IF abs = NoAbs THEN "" ELSE " at " \o Str(abs.h) \o " " \o abs.period
    IN "remind me" \o (IF rel_first THEN r \o a ELSE a \o r)
                   \o (IF tom THEN " tomorrow" ELSE "") \o " to call mom"

\* the Hindi form: "H <baje> [<kal>] <yaad>"
RenderHi(abs, tom) ==
    Str(abs.h) \o " " \o HI_BAJE \o (IF tom THEN " " \o HI_KAL ELSE "") \o " " \o HI_YAAD

\* clock readings: midnight, 09:00 sharp, 09:01, 12:30, 21:30, 08:00 next day
ParseNows == {0, 9 * 60, 9 * 60 + 1, 12 * 60 + 30, 21 * 60 + 30, 24 * 60 + 8 * 60}

ParseInputs ==
    {[fn |-> "parse_reminder", text |-> Render(r, a, tom, first), lang |-> "en",
      rel |-> r, abs |-> a, tomorrow |-> tom]
        : r \in RelParts, a \in AbsParts, tom \in BOOLEAN, first \in BOOLEAN}

V1ParseInputs ==
    {[fn |-> "v1_parse_reminder", text |-> Render(NoRel, a, tom, TRUE), lang |-> "en",
      rel |-> NoRel, abs |-> a, tomorrow |-> tom]
        : a \in AbsParts, tom \in BOOLEAN}
    \cup
    {[fn |-> "v1_parse_reminder", text |-> RenderHi([h |-> h, period |-> HI_BAJE], tom),
      lang |-> "hi", rel |-> NoRel, abs |-> [h |-> h, period |-> HI_BAJE],
      tomorrow |-> tom]
        : h \in {9, 12, 13}, tom \in BOOLEAN}

\* texts that name a day: a calendar command and a reminder request
CalendarInputs ==
    {[fn |-> f, day |-> d, abs |-> a, lang |-> "en", rel |-> NoRel,
      tomorrow |-> (d = "tomorrow"),
      text |-> (IF f = "parse_reminder" THEN "remind me" ELSE "schedule review")
               \o (IF a = NoAbs THEN "" ELSE " at " \o Str(a.h) \o " " \o a.period)
               \o " " \o d \o " to call mom"]
        : f \in {"parse_calendar_command", "parse_reminder"},
          d \in {"monday", "tuesday", "sunday", "tomorrow", "today"},
          a \in {NoAbs, [h |-> 9, period |-> "am"], [h |-> 9, period |-> "PM"]}}

\* words an intent text is put together from; "this" and "something" hold "hi"
IntentWords == {"hello", "this", "your name is Max", "Remind", "tomorrow",
                "schedule", "today", "recipe", "cook", "add meeting", "calendar",
                "weather", HI_YAAD, "~o~x", "~a~b~c~d~e~f"}

PatternWords == {"hello", "something", "call you Max", "my reminders", "pending",
                 "remind", "yes", "i want to", "Recipe", "done", "finished",
                 "bored", "good morning", "thanks"}

\* "already" holds "read", "prune" holds "run", "recall" holds "call"
GoalWords == {"write", "essay", "Study", "already", "gym", "prune", "walk",
              "call", "recall", "reach out", "sleep", "tidy"}

Phrases(words) == words \cup {w1 \o " " \o w2 : w1 \in words, w2 \in words}

IntentInputs ==
    {[fn |-> "detect_intent", text |-> x, lang |-> l]
        : x \in Phrases(IntentWords), l \in {"en", "hi"}}

PatternInputs ==
    {[fn |-> "pattern_branch", text |-> x, lang |-> "en"] : x \in Phrases(PatternWords)}

GoalInputs ==
    {[fn |-> "determine_checkin_schedule", text |-> x, lang |-> "en"]
        : x \in Phrases(GoalWords)}

NotDone == [done |-> FALSE]
Done(v) == [done |-> TRUE, val |-> v]

-----------------------------------------------------------------------------
(* mvp_bot.py: whatsapp_webhook, the reply split into outbound sends.  A     *)
(* long text is a sequence of runs <<character, count>>, no two neighbours   *)
(* of one character; the marker is held as one run.                          *)

CHUNK_BUDGET == 1600

NL == << <<"\n", 1>> >>
Marker == << <<"\n", 2>>, <<"[continued...]", 1>> >>

\* len(text)
RECURSIVE text_len(_)
text_len(t) == IF t = <<>> THEN 0 ELSE t[1][2] + text_len(Tail(t))

\* a + b
text_concat(a, b) ==
    IF a = <<>> THEN b
    ELSE IF b = <<>> THEN a
    ELSE IF a[Len(a)][1] = b[1][1]
    THEN SubSeq(a, 1, Len(a) - 1) \o << <<b[1][1], a[Len(a)][2] + b[1][2]>> >> \o Tail(b)
    ELSE a \o b

IsBlankRun(r) == r[1] \in {" ", "\n", "\t"}

\* text.strip()
RECURSIVE text_lstrip(_)
text_lstrip(t) ==
    IF t # <<>> /\ IsBlankRun(t[1]) THEN text_lstrip(Tail(t)) ELSE t

RECURSIVE text_rstrip(_)
text_rstrip(t) ==
    IF t # <<>> /\ IsBlankRun(t[Len(t)]) THEN text_rstrip(SubSeq(t, 1, Len(t) - 1))
    ELSE t

text_strip(t) == text_rstrip(text_lstrip(t))

\* text.split('\n') from run k on: line is the line being read, acc the lines read
RECURSIVE text_split_from(_, _, _, _)
text_split_from(t, k, line, acc) ==
    IF k > Len(t) THEN Append(acc, line)
    ELSE IF t[k][1] = "\n"
    THEN text_split_from(t, k + 1, <<>>,
                         Append(acc, line) \o [i \in 1..(t[k][2] - 1) |-> <<>>])
    ELSE text_split_from(t, k + 1, Append(line, t[k]), acc)

text_split(t) == text_split_from(t, 1, <<>>, <<>>)

\* '\n'.join(lines[a..b])
RECURSIVE text_join(_, _, _)
text_join(lines, a, b) ==
    IF a > b THEN <<>>
    ELSE IF a = b THEN lines[a]
    ELSE text_concat(text_concat(lines[a], NL), text_join(lines, a + 1, b))

\* "for line in response.split('\n'): ..." from line i on, then the last append
RECURSIVE split_chunks(_, _, _, _)
split_chunks(lines, i, current_chunk, chunks) ==
    IF i > Len(lines)
    THEN IF current_chunk # <<>> THEN Append(chunks, text_strip(current_chunk))
         ELSE chunks
    ELSE IF text_len(current_chunk) + text_len(lines[i]) + 1 < CHUNK_BUDGET
    THEN split_chunks(lines, i + 1, text_concat(text_concat(current_chunk, lines[i]), NL),
                      chunks)
    ELSE split_chunks(lines, i + 1, text_concat(lines[i], NL),
                      Append(chunks, text_strip(current_chunk)))

\* a loop that puts the marker on every chunk
chunk_bodies_all_marked(chunks) ==
    [i \in 1..Len(chunks) |-> text_concat(chunks[i], Marker)]

\* "for i, chunk in enumerate(chunks)": the bodies sent, in order
chunk_bodies(chunks) ==
    [i \in 1..Len(chunks) |->
        text_concat(chunks[i], IF i < Len(chunks) THEN Marker ELSE <<>>)]

\* the bodies of the messages that answer a request with a non-empty response
reply_bodies(response) ==
    IF text_len(response) > CHUNK_BUDGET
    THEN chunk_bodies(split_chunks(text_split(response), 1, <<>>, <<>>))
    ELSE <<response>>

\* shapes of a line: blank, short, indented, just under and at half the
\* budget, longer than the budget
LineShapes(c) ==
    { <<>>, << <<c, 30>> >>, << <<" ", 2>>, <<c, 30>> >>, << <<c, 799>> >>,
      << <<c, 800>> >>, << <<c, 1700>> >> }

\* replies of n lines, the k-th written with the k-th letter
LinesOf(n) ==
    {ls \in [1..n -> UNION {LineShapes(Char(LowerAlpha, k)) : k \in 1..n}] :
        \A k \in 1..n : ls[k] \in LineShapes(Char(LowerAlpha, k))}

ReplyInputs ==
    {[fn |-> "reply_bodies", text |-> text_join(ls, 1, Len(ls)), lang |-> "en",
      lines |-> ls]
        : ls \in UNION {LinesOf(n) : n \in 1..MaxLines}}

-----------------------------------------------------------------------------
(* State after construction of the two applications                         *)

Phones == {"+15550001"}

NoUser == [exists |-> FALSE, assistant_name |-> "", timezone |-> ""]
NoSession == [exists |-> FALSE, language |-> "", assistant_name |-> "",
              last_interaction |-> 0]
NoReply == [to |-> "", kind |-> "none"]

MaxThreads == 2
Threads == 1..MaxThreads

\* a thread that serves no request
Idle == [pc |-> "idle", op |-> "none", val |-> "", phone |-> "", data |-> NoSession]

\* mvp_bot.py after init_db() and scheduler.start(), appv1.py after start-up:
\* empty tables, empty Redis, no one-shot job
installed ==
    /\ users = [p \in Phones |-> NoUser]
    /\ reminders = <<>>
    /\ goals = <<>>
    /\ conversations = 0
    /\ redis = [sessions |-> [p \in Phones |-> NoSession], hashes |-> {}]
    /\ jobs = {}
    /\ sent = <<>>
    /\ reply = NoReply
    /\ threads = [t \in Threads |-> Idle]
    /\ started_at = now

-----------------------------------------------------------------------------
(* SpecFn: the pure functions applied to their inputs                       *)

InitFn ==
    /\ \/ now \in ParseNows /\ arg \in ParseInputs \cup V1ParseInputs \cup CalendarInputs
       \/ now = 0 /\ arg \in IntentInputs \cup PatternInputs \cup GoalInputs
                                   \cup ReplyInputs
    /\ ret = NotDone
    /\ app = "none"
    /\ USE_AI = FALSE
    /\ installed

Pending(fn) == ~ret.done /\ arg.fn = fn

EvalParseReminder ==
    /\ Pending("parse_reminder")
    /\ ret' = Done(parse_reminder(arg.text, now))
    /\ UNCHANGED <<now, app, USE_AI, arg, store_vars>>

EvalV1ParseReminder ==
    /\ Pending("v1_parse_reminder")
    /\ ret' = Done(v1_parse_reminder(arg.text, arg.lang, now))
    /\ UNCHANGED <<now, app, USE_AI, arg, store_vars>>

EvalParseCalendarCommand ==
    /\ Pending("parse_calendar_command")
    /\ ret' = Done(parse_calendar_command(arg.text, now))
    /\ UNCHANGED <<now, app, USE_AI, arg, store_vars>>

EvalDetectIntent ==
    /\ Pending("detect_intent")
    /\ ret' = Done(detect_intent(arg.text, arg.lang))
    /\ UNCHANGED <<now, app, USE_AI, arg, store_vars>>

EvalPatternBranch ==
    /\ Pending("pattern_branch")
    /\ ret' = Done(pattern_branch(arg.text))
    /\ UNCHANGED <<now, app, USE_AI, arg, store_vars>>

EvalCheckinSchedule ==
    /\ Pending("determine_checkin_schedule")
    /\ ret' = Done(determine_checkin_schedule(arg.text))
    /\ UNCHANGED <<now, app, USE_AI, arg, store_vars>>

EvalReplyBodies ==
    /\ Pending("reply_bodies")
    /\ ret' = Done(reply_bodies(arg.text))
    /\ UNCHANGED <<now, app, USE_AI, arg, store_vars>>

NextFn ==
    \/ EvalParseReminder
    \/ EvalV1ParseReminder
    \/ EvalParseCalendarCommand
    \/ EvalDetectIntent
    \/ EvalPatternBranch
    \/ EvalCheckinSchedule
    \/ EvalReplyBodies

SpecFn == InitFn /\ [][NextFn]_vars

-----------------------------------------------------------------------------
(* Claims about the parsers                                                 *)

Returned(fn) == ret.done /\ arg.fn = fn

\* the duration the parts of the input spell, in minutes
DurationOf(rel) == IF rel.unit \in {"hours", "hr"} THEN rel.n * 60 ELSE rel.n

\* today's date at the hour of the returned instant
ComposedToday == (now \div 1440) * 1440 + (ret.val.time % 1440)

RolloverRule ==
    IF arg.tomorrow THEN ret.val.time = ComposedToday + 1440
    ELSE ComposedToday <= now => ret.val.time = ComposedToday + 1440

\* C5: an absolute-clock input whose composed instant (today at the parsed
\* hour) is not after now is rolled forward by exactly one day, and with an
\* explicit "tomorrow" the day is advanced once, not twice; stated of both
\* parsers (mvp_bot.py and appv1.py).
C5_RolloverExactlyOneDay ==
    /\ (Returned("parse_reminder") /\ arg.rel = NoRel /\ arg.abs # NoAbs
          /\ ret.val.kind = "ok") => RolloverRule
    /\ (Returned("v1_parse_reminder") /\ arg.abs # NoAbs
          /\ ret.val.kind = "ok") => RolloverRule

\* the part of C5 that mvp_bot.py alone is held to
C5_mvp_only ==
    (Returned("parse_reminder") /\ arg.rel = NoRel /\ arg.abs # NoAbs
       /\ ret.val.kind = "ok") => RolloverRule

\* C6: a text with both a relative-duration pattern and an absolute-clock
\* pattern parses to now + duration; the absolute clock has no effect.
C6_RelativeWins ==
    (Returned("parse_reminder") /\ arg.rel # NoRel /\ arg.abs # NoAbs)
        => /\ ret.val.kind = "ok"
           /\ ret.val.time = now + DurationOf(arg.rel)

C6_Witness ==
    /\ Returned("parse_reminder")
    /\ arg.rel = [n |-> 2, unit |-> "hours"]
    /\ arg.abs = [h |-> 9, period |-> "PM"]
    /\ now = 9 * 60 + 1
    /\ ret.val.time = now + 120

\* C7: a relative-duration input parses to now + N units, no day added, and
\* the instant is strictly after now.
C7_RelativeStrictlyFuture ==
    (Returned("parse_reminder") /\ arg.rel # NoRel)
        => /\ ret.val.kind = "ok"
           /\ ret.val.time = now + DurationOf(arg.rel)
           /\ ret.val.time > now

\* the part of C7 that holds: now + N units, never before now
C7_RelativeNotPast ==
    (Returned("parse_reminder") /\ arg.rel # NoRel)
        => /\ ret.val.kind = "ok"
           /\ ret.val.time = now + DurationOf(arg.rel)
           /\ ret.val.time >= now

-----------------------------------------------------------------------------
(* Claims about the classifiers                                             *)

\* table positions whose trigger test holds of the text
IntentHits == {k \in 1..Len(intents) :
                 ContainsAny(Lower(arg.text), intent_keywords(k, arg.lang))}
PatternHits == {k \in 1..Len(patterns) : pattern_holds(Strip(Lower(arg.text)), k)}

Least(S) == CHOOSE i \in S : \A j \in S : i <= j

\* C9: classification is first match in declaration order: when triggers of
\* the intents at positions i < j are both in the text the result is never the
\* intent at j, and the result is the intent at the least position that has a
\* trigger in the text (the fallback when there is none); stated of
\* detect_intent (appv1.py) and of the branch chain of process_with_patterns.
C9_FirstMatchWins ==
    /\ Returned("detect_intent") =>
         /\ \A i, j \in IntentHits : i < j => ret.val # intents[j][1]
         /\ ret.val = IF IntentHits = {} THEN "unknown"
                      ELSE intents[Least(IntentHits)][1]
    /\ Returned("pattern_branch") =>
         /\ \A i, j \in PatternHits : i < j => ret.val # patterns[j][1]
         /\ ret.val = IF PatternHits = {} THEN "fallback"
                      ELSE patterns[Least(PatternHits)][1]

\* a later intent's longer trigger comes first in the text, the earlier wins
C9_Witness ==
    /\ Returned("detect_intent")
    /\ arg.text = "tomorrow this"
    /\ arg.lang = "en"
    /\ IntentHits = {1, 3}
    /\ ret.val = "greeting"

C9_WitnessPatterns ==
    /\ Returned("pattern_branch")
    /\ arg.text = "done remind"
    /\ PatternHits = {4, 8}
    /\ ret.val = "reminder"

\* the claim's cadences, in half hours, by group in scan order
CategoryCadences == << <<4, 8, 12>>, <<3, 6, 10>>, <<6, 12, 18>>, <<2, 4, 8>> >>
DefaultCadence == <<4, 8, 14>>
CategoryWords == <<WRITING_WORDS, STUDY_WORDS, EXERCISE_WORDS, COMMUNICATION_WORDS>>

HalfHours(c) == [k \in 1..Len(c) |-> c[k] * 30]

CategoryHits == {k \in 1..Len(CategoryWords) :
                   ContainsAny(Lower(arg.text), CategoryWords[k])}

\* C10: the keyword groups are scanned in the order writing, study, exercise,
\* communication; the result is the cadence of the earliest group with a
\* keyword in the goal text (2h,4h,6h / 1.5h,3h,5h / 3h,6h,9h / 1h,2h,4h) and
\* the default 2h,4h,7h when no group matches.
C10_EarliestGroupCadence ==
    Returned("determine_checkin_schedule") =>
        ret.val = IF CategoryHits = {} THEN HalfHours(DefaultCadence)
                  ELSE HalfHours(CategoryCadences[Least(CategoryHits)])

\* a text matching exercise and communication gets the exercise cadence
C10_Witness ==
    /\ Returned("determine_checkin_schedule")
    /\ arg.text = "call gym"
    /\ CategoryHits = {3, 4}
    /\ ret.val = <<180, 360, 540>>

-----------------------------------------------------------------------------
(* Bounds and inputs of the deployed applications                           *)

StartClock == 960
MaxClock == 1100
TickStep == 60
MaxConversations == 6

Clock == StartClock..MaxClock

\* message bodies sent to mvp_bot.py
MvpInbox == {"remind me at 5 pm to call mom",
             "remind me at 5 PM to buy milk",
             "remind me in 0 minutes to stretch",
             "remind me to call mom",
             "remind me at 5 pm to plan dinner",
             "i want to write my essay",
             "finished",
             "done",
             "done with call mom",
             "hello",
             "call you max",
             "show status"}

\* message bodies sent to the deployed mvp_bot.py
DeployedInbox == {"remind me at 5 pm to call mom",
                  "show my reminders",
                  "i want to write my essay",
                  "done"}

\* message bodies with a clock hour that no 12-hour clock shows
HourInbox == {"remind me at 5 pm to call mom",
              "remind me at 13 am to call mom",
              "remind me at 13 pm to call mom"}

\* every body a memo table below is built for
Inbox == MvpInbox \cup DeployedInbox \cup HourInbox

\* what openai.ChatCompletion.create does: it raises, or it answers
AiOutcomes == {"raise", "Sure, noted.", "I will remind you."}

-----------------------------------------------------------------------------
(* More of Python str                                                       *)

UpperOf == [c \in LowerChars |->
              Char(UpperAlpha, CHOOSE k \in 1..Len(LowerAlpha) : Char(LowerAlpha, k) = c)]

UpperChar(c) == IF c \in LowerChars THEN UpperOf[c] ELSE c

\* str.capitalize()
Capitalize(s) ==
    IF Len(s) = 0 THEN s
    ELSE UpperChar(Char(s, 1)) \o Lower(SubSeq(s, 2, Len(s)))

\* s.replace(old, new, 1)
ReplaceFirst(s, old, new) ==
    LET i == FindFrom(s, old, 1)
    IN IF i = 0 THEN s
       ELSE SubSeq(s, 1, i - 1) \o new \o SubSeq(s, i + Len(old), Len(s))

\* first index >= i whose character is not matched by \w
RECURSIVE SkipWord(_, _)
SkipWord(s, i) ==
    IF i <= Len(s) /\ IsWordChar(Char(s, i)) THEN SkipWord(s, i + 1) ELSE i

-----------------------------------------------------------------------------
(* The job store of the BackgroundScheduler, as the applications use it      *)

\* f"reminder_{phone}_{reminder_time.timestamp()}"
reminder_job_id(phone, t) == "reminder_" \o phone \o "_" \o Str(t)

\* a check-in id without the ordinal index
goal_job_id_without_ordinal(phone, goal_id, i) ==
    "goal_checkin_" \o phone \o "_" \o Str(goal_id)

\* f"goal_checkin_{phone}_{goal_id}_{i}"
goal_job_id(phone, goal_id, i) ==
    "goal_checkin_" \o phone \o "_" \o Str(goal_id) \o "_" \o Str(i)

Job(id, func, run_date, to, text, name, k, t) ==
    [id |-> id, func |-> func, run_date |-> run_date, to |-> to, text |-> text,
     assistant_name |-> name, check_number |-> k, added_at |-> t]

\* an add_job that stores the job next to a pending one of the same id
add_job_keep_existing(store, job) == store \cup {job}

\* scheduler.add_job(..., id=job_id, replace_existing=True)
add_job(store, job) == {j \in store : j.id # job.id} \cup {job}

\* a date trigger that lets a job run at any time
due_at_once(job, t) == TRUE

\* trigger='date', run_date=...: the job is run once the clock has reached run_date
due(job, t) == job.run_date <= t

-----------------------------------------------------------------------------
(* mvp_bot.py: the handlers of PersonalAssistant; st holds the tables and    *)
(* the job store, the result is the new st and the kind of reply             *)

Outcome(st, kind) == [st |-> st, kind |-> kind]

parse_memo == [m \in Inbox, t \in Clock |-> parse_reminder(m, t)]

\* self.parse_reminder(message) called at clock t
parse_at(message, t) ==
    IF <<message, t>> \in DOMAIN parse_memo THEN parse_memo[message, t]
    ELSE parse_reminder(message, t)

ReminderRow(phone, task, time, t) ==
    [phone_number |-> phone, task |-> task, reminder_time |-> time,
     created_at |-> t, completed |-> FALSE]

GoalRow(phone, goal, t) ==
    [phone_number |-> phone, goal |-> goal, created_at |-> t, completed |-> FALSE]

\* handle_reminder after "reminder_time, task = self.parse_reminder(message)"
reminder_parsed(pr, phone, t, st) ==
    IF pr.kind = "raise" THEN Outcome(st, "raise")
    ELSE IF pr.kind = "ok" /\ pr.task # ""
    THEN Outcome([st EXCEPT
                    !.jobs = add_job(@, Job(reminder_job_id(phone, pr.time),
                                 "send_reminder", pr.time, phone, pr.task,
                                 st.users[phone].assistant_name, 0, t)),
                    !.reminders = Append(@, ReminderRow(phone, pr.task, pr.time, t))],
                 "reminder_set")
    ELSE Outcome(st, "need_more_details")

\* a handle_reminder that falls back to "in an hour" when no time is found
handle_reminder_default_time(phone, message, t, st) ==
    reminder_parsed([parse_at(message, t) EXCEPT
                       !.time = IF parse_at(message, t).kind = "none"
                                THEN t + MINUTES_PER_HOUR ELSE @,
                       !.task = IF parse_at(message, t).kind = "none"
                                THEN "your reminder" ELSE @,
                       !.kind = IF @ = "none" THEN "ok" ELSE @],
                    phone, t, st)

handle_reminder(phone, message, t, st) ==
    reminder_parsed(parse_at(message, t), phone, t, st)

GoalPrefixes == <<"i want to", "i need to", "my goal is to", "i have to", "i must">>

\* the loop "for prefix in [...]: if prefix in goal_text.lower(): ...; break"
RECURSIVE strip_goal_prefix(_, _)
strip_goal_prefix(goal_text, k) ==
    IF k > Len(GoalPrefixes) THEN goal_text
    ELSE IF Contains(Lower(goal_text), GoalPrefixes[k])
    THEN ReplaceFirst(Lower(goal_text), GoalPrefixes[k], "")
    ELSE strip_goal_prefix(goal_text, k + 1)

\* goal_text of handle_goal with its check-in offsets
goal_of(message) ==
    LET goal_text == Capitalize(Strip(strip_goal_prefix(message, 1)))
    IN [text |-> goal_text, check_in_times |-> determine_checkin_schedule(goal_text)]

goal_memo == [m \in Inbox |-> goal_of(m)]

\* the job of "for i, hours in enumerate(check_in_times[:3])"
checkin_job(i, goal, phone, t, st) ==
    Job(goal_job_id(phone, Len(st.goals) + 1, i), "send_goal_checkin",
        t + goal.check_in_times[i + 1], phone, goal.text,
        st.users[phone].assistant_name, i + 1, t)

\* handle_goal once goal_text and check_in_times are known
goal_saved(goal, phone, t, st) ==
    Outcome([st EXCEPT
               !.goals = Append(@, GoalRow(phone, goal.text, t)),
               !.jobs = add_job(add_job(add_job(@, checkin_job(0, goal, phone, t, st)),
                                        checkin_job(1, goal, phone, t, st)),
                                checkin_job(2, goal, phone, t, st))],
            "goal_set")

handle_goal(phone, message, t, st) ==
    goal_saved(IF message \in DOMAIN goal_memo THEN goal_memo[message]
               ELSE goal_of(message),
               phone, t, st)

\* re.search(r'done(?:\s+with)?\s+(.+)', msg_lower) finds a match
done_match(msg_lower) ==
    \E i \in 1..Len(msg_lower) :
        /\ StartsAt(msg_lower, i, "done")
        /\ LET e == SkipSpaces(msg_lower, i + 4)
           IN \E k \in (i + 5)..e : k <= Len(msg_lower) /\ Char(msg_lower, k) # "\n"

\* done_match.group(1).strip() for the leftmost match at or after position i in
\* a text without line breaks, "" if there is no match
RECURSIVE done_task_from(_, _)
done_task_from(s, i) ==
    IF i > Len(s) THEN ""
    ELSE LET a == SkipSpaces(s, i + 4)
             b == SkipSpaces(s, a + 4)
         IN IF StartsAt(s, i, "done") /\ a > i + 4 /\ (a <= Len(s) \/ a > i + 5)
            THEN IF a > Len(s) THEN ""
                 ELSE IF StartsAt(s, a, "with") /\ b > a + 4 /\ b <= Len(s)
                 THEN Strip(SubSeq(s, b, Len(s)))
                 ELSE IF StartsAt(s, a, "with") /\ b > a + 5 THEN ""
                 ELSE Strip(SubSeq(s, a, Len(s)))
            ELSE done_task_from(s, i + 1)

\* task_desc of handle_completion
done_task(msg_lower) == done_task_from(msg_lower, 1)

\* the reminders query without "AND completed = 0"
open_reminders_any_flag(st, phone) ==
    {i \in 1..Len(st.reminders) : st.reminders[i].phone_number = phone}

open_reminders(st, phone) ==
    {i \in 1..Len(st.reminders) :
        st.reminders[i].phone_number = phone /\ ~st.reminders[i].completed}

\* the goals query without "phone_number = ?"
open_goals_any_phone(st, phone) ==
    {i \in 1..Len(st.goals) : ~st.goals[i].completed}

open_goals(st, phone) ==
    {i \in 1..Len(st.goals) :
        st.goals[i].phone_number = phone /\ ~st.goals[i].completed}

\* r is the row of "... completed = 0 ORDER BY reminder_time LIMIT 1", 0 for None
recent_reminder(st, phone, r) ==
    IF open_reminders(st, phone) = {} THEN r = 0
    ELSE /\ r \in open_reminders(st, phone)
         /\ \A i \in open_reminders(st, phone) :
                st.reminders[r].reminder_time <= st.reminders[i].reminder_time

\* g is the row of "... completed = 0 ORDER BY created_at DESC LIMIT 1", 0 for None
recent_goal(st, phone, g) ==
    IF open_goals(st, phone) = {} THEN g = 0
    ELSE /\ g \in open_goals(st, phone)
         /\ \A i \in open_goals(st, phone) :
                st.goals[g].created_at >= st.goals[i].created_at

handle_completion(phone, message, st, r, g) ==
    LET msg_lower == Lower(message)
    IN IF done_match(msg_lower) THEN Outcome(st, "completed")
       ELSE IF r > 0 /\ Contains(msg_lower, "done")
       THEN Outcome([st EXCEPT !.reminders[r].completed = TRUE], "completed")
       ELSE IF g > 0 /\ ContainsAny(msg_lower, <<"done", "completed", "finished">>)
       THEN Outcome([st EXCEPT !.goals[g].completed = TRUE], "completed")
       ELSE Outcome(st, "ask_completed")

NamePhrases == <<"i'll call you", "your name is", "call you", "name you">>

\* group(1) of the leftmost match of phrase + r'\s+(\w+)' from position i, "" if none
RECURSIVE name_search(_, _, _)
name_search(s, i, phrase) ==
    IF i > Len(s) THEN ""
    ELSE LET b == SkipSpaces(s, i + Len(phrase))
             e == SkipWord(s, b)
         IN IF StartsAt(s, i, phrase) /\ b > i + Len(phrase) /\ e > b
            THEN SubSeq(s, b, e - 1)
            ELSE name_search(s, i + 1, phrase)

\* the loop over the four patterns of the set-name branch
RECURSIVE extract_name(_, _)
extract_name(msg_lower, k) ==
    IF k > Len(NamePhrases) THEN ""
    ELSE LET name == name_search(msg_lower, 1, NamePhrases[k])
         IN IF name # "" THEN name ELSE extract_name(msg_lower, k + 1)

\* a set-name branch that writes the row anew, the zone back at a default
set_assistant_name_replace_row(phone, msg_lower, st) ==
    Outcome([st EXCEPT !.users[phone] =
                [exists |-> TRUE, assistant_name |-> Capitalize(extract_name(msg_lower, 1)),
                 timezone |-> "UTC"]],
            "renamed")

\* the set-name branch with update_assistant_name
set_assistant_name(phone, msg_lower, st) ==
    LET name == extract_name(msg_lower, 1)
    IN IF name # ""
       THEN Outcome([st EXCEPT !.users[phone].assistant_name = Capitalize(name)],
                    "renamed")
       ELSE Outcome(st, "ask_name")

OngoingKeywords == <<"essay", "report", "project", "assignment", "homework",
                     "study", "work on", "write", "finish", "complete">>

\* the row of "SELECT task FROM reminders ... ORDER BY created_at DESC LIMIT 1"
latest_reminder(st, phone) ==
    LET mine == {i \in 1..Len(st.reminders) : st.reminders[i].phone_number = phone}
    IN IF mine = {} THEN 0
       ELSE CHOOSE i \in mine :
              \A j \in mine : \/ st.reminders[i].created_at > st.reminders[j].created_at
                              \/ (st.reminders[i].created_at = st.reminders[j].created_at
                                  /\ i >= j)

\* the quick-confirmation branch
handle_confirmation(phone, t, st) ==
    LET i == latest_reminder(st, phone)
    IN IF i > 0 /\ ContainsAny(Lower(st.reminders[i].task), OngoingKeywords)
       THEN LET task == st.reminders[i].task
                stripped == Strip(Replace(Replace(task, "you need to", ""), "your", "my"))
                goal_text == IF Len(stripped) > 0
                             THEN UpperChar(Char(stripped, 1))
                                  \o SubSeq(stripped, 2, Len(stripped))
                             ELSE task
            IN handle_goal(phone, "I want to " \o goal_text, t, st)
       ELSE Outcome(st, "ask_goal")

branch_memo == [m \in Inbox |-> pattern_branch(m)]

\* the handler of the branch that process_with_patterns takes
pattern_handler(branch, phone, message, t, st, r, g) ==
    CASE branch = "set_name" -> set_assistant_name(phone, Strip(Lower(message)), st)
      [] branch = "reminder" -> handle_reminder(phone, message, t, st)
      [] branch = "confirm" -> handle_confirmation(phone, t, st)
      [] branch = "goal" -> handle_goal(phone, message, t, st)
      [] branch = "completion" -> handle_completion(phone, message, st, r, g)
      [] OTHER -> Outcome(st, branch)

process_with_patterns(phone, message, t, st, r, g) ==
    pattern_handler(IF message \in DOMAIN branch_memo THEN branch_memo[message]
                    ELSE pattern_branch(message),
                    phone, message, t, st, r, g)

\* goal_text of extract_and_execute_actions
ai_goal_text(message) ==
    Strip(Replace(Replace(Replace(Lower(message), "i want to", ""), "i will", ""),
                  "my goal is", ""))

\* the "remind" block of extract_and_execute_actions: the tables after it
ai_reminder(pr, phone, t, st) ==
    IF pr.kind = "ok" /\ pr.task # ""
    THEN [st EXCEPT !.jobs = add_job(@, Job(reminder_job_id(phone, pr.time),
                                 "send_reminder", pr.time, phone, pr.task,
                                 st.users[phone].assistant_name, 0, t))]
    ELSE st

\* the goal block of extract_and_execute_actions
ai_goal(goal_text, wanted, phone, t, st) ==
    IF wanted /\ Len(goal_text) > 5
    THEN Outcome([st EXCEPT !.goals = Append(@, GoalRow(phone, goal_text, t))], "ai")
    ELSE Outcome(st, "ai")

\* extract_and_execute_actions with the outcome pr of its call of parse_reminder
ai_actions(pr, combined_text, phone, message, t, st) ==
    IF pr.kind = "raise" THEN Outcome(st, "raise")
    ELSE ai_goal(ai_goal_text(message),
                 ContainsAny(combined_text, <<"i will", "i want to", "my goal">>),
                 phone, t, ai_reminder(pr, phone, t, st))

extract_and_execute_actions(phone, message, ai_response, t, st) ==
    ai_actions(IF Contains(Lower(message) \o " " \o Lower(ai_response), "remind")
               THEN parse_at(message, t)
               ELSE [kind |-> "none", time |-> 0, task |-> ""],
               Lower(message) \o " " \o Lower(ai_response), phone, message, t, st)

ai_memo == [m \in Inbox |-> should_use_ai(m)]

\* process_message: ai is the outcome of the OpenAI call, were it made
\* "try: return self.process_with_ai(...) except: pass" and the patterns after
ai_or_patterns(by_ai, by_patterns) ==
    IF by_ai.kind # "raise" THEN by_ai ELSE by_patterns

process_message(phone, message, t, st, ai, r, g) ==
    ai_or_patterns(IF /\ USE_AI
                      /\ IF message \in DOMAIN ai_memo THEN ai_memo[message]
                         ELSE should_use_ai(message)
                      /\ ai # "raise"
                   THEN extract_and_execute_actions(phone, message, ai, t, st)
                   ELSE Outcome(st, "raise"),
                   process_with_patterns(phone, message, t, st, r, g))

\* the defaults dict of detect_timezone: country code, zone
TimezoneDefaults ==
    << <<"+91", "Asia/Kolkata">>, <<"+1", "America/New_York">>,
       <<"+44", "Europe/London">>, <<"+86", "Asia/Shanghai">>,
       <<"+81", "Asia/Tokyo">> >>

RECURSIVE timezone_from(_, _)
timezone_from(clean_number, k) ==
    IF k > Len(TimezoneDefaults) THEN "UTC"
    ELSE IF StartsAt(clean_number, 1, TimezoneDefaults[k][1])
    THEN TimezoneDefaults[k][2]
    ELSE timezone_from(clean_number, k + 1)

\* detect_timezone: the zone phone_timezone gives for a number is taken to be
\* the default of its country code; a number that does not parse gives 'UTC'
detect_timezone(phone) == timezone_from(Replace(phone, "whatsapp:", ""), 1)

\* PersonalAssistant.__init__: get_or_create_user
get_or_create_user(rows, phone) ==
    IF rows[phone].exists THEN rows
    ELSE [rows EXCEPT ![phone] = [exists |-> TRUE, assistant_name |-> "Assistant",
                                  timezone |-> detect_timezone(phone)]]

-----------------------------------------------------------------------------
(* appv1.py: UserSession, ReminderService.schedule_reminder, the webhook     *)

\* message bodies sent to appv1.py
V1Inbox == {"remind me at 5 pm to call mom",
            "remind me at 9 am to take medicine",
            "remind me to call mom",
            "your name is raj",
            "5 " \o HI_BAJE \o " " \o HI_YAAD}

\* what translator.detect(incoming_msg).lang does: a language code, or it raises
DetectOutcomes == {"en", "hi", "raise"}

\* the sub-minute part of a clock reading, which now.replace(hour=h, minute=0,
\* second=0) keeps
Micros == {0, 1}

\* UserSession.get_data: the hash of the user, initialised on first use
get_data(sessions, phone) ==
    IF sessions[phone].exists THEN sessions
    ELSE [sessions EXCEPT ![phone] = [exists |-> TRUE, language |-> "en",
                                      assistant_name |-> "Assistant",
                                      last_interaction |-> 0]]

V1NamePatterns(lang) ==
    IF lang = "hi"
    THEN <<"~e~m~b~d~g~j~n~j ~a~j~b ", "~o~p~q~j ~a~j~b ", "~a~j~b ~g~l ">>
    ELSE <<"your name is ", "call you ", "name you ", "i'll call you ">>

\* group(1) of the leftmost match of prefix + r'(\w+)' from position i, "" if none
RECURSIVE v1_name_search(_, _, _)
v1_name_search(s, i, prefix) ==
    IF i > Len(s) THEN ""
    ELSE LET b == i + Len(prefix)
             e == SkipWord(s, b)
         IN IF StartsAt(s, i, prefix) /\ e > b THEN SubSeq(s, b, e - 1)
            ELSE v1_name_search(s, i + 1, prefix)

\* extract_name_from_message(text, lang), "" for None
RECURSIVE extract_name_from_message(_, _, _)
extract_name_from_message(text, lang, k) ==
    IF k > Len(V1NamePatterns(lang)) THEN ""
    ELSE LET name == v1_name_search(Lower(text), 1, V1NamePatterns(lang)[k])
         IN IF name # "" THEN Capitalize(name)
            ELSE extract_name_from_message(text, lang, k + 1)

\* f"reminder_{phone_number}_{reminder_time.timestamp()}"
v1_job_id(phone, t, us) == reminder_job_id(phone, t) \o "." \o Str(us)

V1Job(phone, task, time, us, lang, t) ==
    [id |-> v1_job_id(phone, time, us), func |-> "send_reminder", run_date |-> time,
     to |-> phone, text |-> task, lang |-> lang, added_at |-> t]

v1_parse_memo == [m \in V1Inbox, l \in {"en", "hi"}, t \in Clock |->
                    v1_parse_reminder(m, l, t)]
v1_intent_memo == [m \in V1Inbox, l \in {"en", "hi"} |-> detect_intent(m, l)]

\* ReminderService.schedule_reminder and the reply of the reminder branch
v1_schedule_reminder(pr, job, phone, user_lang, st) ==
    IF pr.kind = "raise" THEN Outcome(st, "raise")
    ELSE IF pr.kind = "none" THEN Outcome(st, "specify_time")
    ELSE IF \E j \in st.jobs : j.id = job.id THEN Outcome(st, "raise")
    ELSE Outcome([st EXCEPT
                    !.jobs = @ \cup {job},
                    !.hashes = @ \cup {[key |-> "reminder:" \o phone \o ":" \o job.id,
                                        task |-> pr.task, time |-> pr.time,
                                        lang |-> user_lang]}],
                 "reminder_set")

\* the set_name branch, name being what extract_name_from_message returns
v1_set_name(name, phone, st) ==
    IF name # ""
    THEN Outcome([st EXCEPT !.sessions[phone].assistant_name = name], "name_set")
    ELSE Outcome(st, "ask_name")

\* the branch of whatsapp_webhook that intent selects
v1_intent_handler(intent, pr, phone, incoming_msg, user_lang, t, us, st) ==
    CASE intent = "greeting" ->
           Outcome(st, IF st.sessions[phone].assistant_name # "Assistant"
                       THEN "introduction" ELSE "welcome")
      [] intent = "set_name" ->
           v1_set_name(extract_name_from_message(incoming_msg, user_lang, 1), phone, st)
      [] intent = "reminder" ->
           v1_schedule_reminder(pr, V1Job(phone, pr.task, pr.time, us, user_lang, t),
                                phone, user_lang, st)
      [] OTHER -> Outcome(st, intent)

\* the part of whatsapp_webhook after the session set-up; st holds the session
\* hashes, the reminder hashes and the job store
v1_dispatch(phone, incoming_msg, user_lang, t, us, st) ==
    v1_intent_handler(v1_intent_memo[incoming_msg, user_lang],
                      v1_parse_memo[incoming_msg, user_lang, t],
                      phone, incoming_msg, user_lang, t, us, st)

-----------------------------------------------------------------------------
(* Spec: one of the two applications deployed, serving requests and running  *)
(* its scheduled jobs.  Clock readings increase from one request or job run  *)
(* to the next.                                                              *)

NoRequest == [fn |-> "none", from |-> "", body |-> ""]

Init ==
    /\ now = StartClock
    /\ app \in {"mvp_bot", "appv1"}
    /\ USE_AI \in (IF app = "mvp_bot" THEN BOOLEAN ELSE {FALSE})
    /\ installed
    /\ arg = NoRequest
    /\ ret = NotDone

\* mvp_bot.py: POST /webhook
whatsapp_webhook(from_number, body) ==
    /\ app = "mvp_bot"
    /\ now < MaxClock
    /\ conversations + 2 <= MaxConversations
    /\ \E ai \in AiOutcomes, r \in 0..Len(reminders), g \in 0..Len(goals) :
         LET st0 == [users |-> get_or_create_user(users, from_number),
                     reminders |-> reminders, goals |-> goals, jobs |-> jobs]
         IN /\ recent_reminder(st0, from_number, r)
            /\ recent_goal(st0, from_number, g)
            /\ \E out \in {process_message(from_number, Strip(body), now, st0, ai, r, g)} :
                 /\ users' = out.st.users
                 /\ reminders' = out.st.reminders
                 /\ goals' = out.st.goals
                 /\ jobs' = out.st.jobs
                 /\ conversations' = conversations + (IF out.kind = "raise" THEN 1 ELSE 2)
                 /\ reply' = [to |-> from_number,
                              kind |-> IF out.kind = "raise" THEN "oops" ELSE out.kind]
                 /\ ret' = Done(IF out.kind = "raise" THEN 500 ELSE 200)
    /\ arg' = [fn |-> "whatsapp_webhook", from |-> from_number, body |-> body]
    /\ now' = now + 1
    /\ UNCHANGED <<app, USE_AI, redis, sent, threads, started_at>>

\* appv1.py: POST /webhook with a text body
v1_whatsapp_webhook(from_number, body) ==
    /\ app = "appv1"
    /\ now < MaxClock
    /\ conversations + 2 <= MaxConversations
    /\ \E detected \in DetectOutcomes, us \in Micros :
         LET s1 == [get_data(redis.sessions, from_number)
                      EXCEPT ![from_number].last_interaction = now]
             s2 == IF detected \in {"hi", "en"}
                   THEN [s1 EXCEPT ![from_number].language = detected] ELSE s1
         IN \E out \in {v1_dispatch(from_number, Strip(body), s2[from_number].language,
                                    now, us, [sessions |-> s2, hashes |-> redis.hashes,
                                              jobs |-> jobs])} :
              /\ redis' = [sessions |-> out.st.sessions, hashes |-> out.st.hashes]
              /\ jobs' = out.st.jobs
              /\ reply' = IF out.kind = "raise" THEN NoReply
                          ELSE [to |-> from_number, kind |-> out.kind]
              /\ ret' = Done(IF out.kind = "raise" THEN 500 ELSE 200)
    /\ conversations' = conversations + 2
    /\ arg' = [fn |-> "whatsapp_webhook", from |-> from_number, body |-> body]
    /\ now' = now + 1
    /\ UNCHANGED <<app, USE_AI, users, reminders, goals, sent, threads, started_at>>

\* a scheduler that keeps a job whose payload failed, to run it again
job_store_requeue_failed(store, job, delivered) ==
    IF delivered THEN store \ {job} ELSE store

\* the job store after a date-trigger job was run: the job has left it, and
\* the payload ends normally whether twilio_client.messages.create raised or
\* not (try/except in mvp_bot.py; in appv1.py the exception ends in the
\* executor of the scheduler)
job_store_after_run(store, job, delivered) == store \ {job}

\* a send_reminder that marks the reminder it was registered for as completed
reminders_completed_on_run(rows, job) ==
    [i \in 1..Len(rows) |->
        IF /\ job.func = "send_reminder"
           /\ rows[i].phone_number = job.to
           /\ rows[i].reminder_time = job.run_date
        THEN [rows[i] EXCEPT !.completed = TRUE] ELSE rows[i]]

\* table reminders after a job ran: send_reminder and send_goal_checkin only
\* build a text and call twilio_client.messages.create; neither writes a row
reminders_after_run(rows, job) == rows

\* the scheduler thread takes a due job out of the store and runs its payload
\* (send_reminder, send_goal_checkin), whose outbound send succeeds or fails; a
\* job already past its run_date when it was added is dropped as misfired
run_job(job) ==
    /\ job \in jobs
    /\ due(job, now)
    /\ now < MaxClock
    /\ \E delivered \in BOOLEAN :
         /\ jobs' = job_store_after_run(jobs, job, delivered)
         /\ sent' = IF job.run_date < job.added_at THEN sent
                    ELSE Append(sent, [job |-> job, at |-> now, delivered |-> delivered])
    /\ reminders' = reminders_after_run(reminders, job)
    /\ now' = now + 1
    /\ UNCHANGED <<app, USE_AI, users, goals, conversations, redis,
                   reply, threads, started_at, arg, ret>>

\* time passes up to the next run_date or the next multiple of TickStep; due
\* jobs are run first
Tick ==
    /\ \A j \in jobs : ~due(j, now)
    /\ LET step == (now \div TickStep + 1) * TickStep
           dates == {j.run_date : j \in jobs} \cap (now + 1)..step
       IN now' = IF dates = {} THEN step
                 ELSE CHOOSE d \in dates : \A e \in dates : d <= e
    /\ now' <= MaxClock
    /\ UNCHANGED <<app, USE_AI, store_vars, arg, ret>>

Next ==
    \/ \E p \in Phones, m \in MvpInbox : whatsapp_webhook(p, m)
    \/ \E p \in Phones, m \in V1Inbox : v1_whatsapp_webhook(p, m)
    \/ \E j \in jobs : run_job(j)
    \/ Tick

Spec == Init /\ [][Next]_vars

-----------------------------------------------------------------------------
(* SpecDeployed: mvp_bot.py serving two recipients, the process restarted at *)
(* any time                                                                  *)

Recipients == Phones \cup {"+15550002"}

\* a job store that is read back from disk when the process starts
job_store_persistent(store) == store

\* "jobstores = {'default': MemoryJobStore()}": the store of a new process is
\* empty, whatever the store of the process before it held
job_store_at_start(store) == {}

InitDeployed ==
    /\ now = StartClock
    /\ app = "mvp_bot"
    /\ USE_AI = FALSE
    /\ users = [p \in Recipients |-> NoUser]
    /\ reminders = <<>>
    /\ goals = <<>>
    /\ conversations = 0
    /\ redis = [sessions |-> [p \in Recipients |-> NoSession], hashes |-> {}]
    /\ jobs = {}
    /\ sent = <<>>
    /\ reply = NoReply
    /\ threads = [t \in Threads |-> Idle]
    /\ started_at = now
    /\ arg = NoRequest
    /\ ret = NotDone

\* the process ends and the module is loaded again: a new scheduler with a new
\* MemoryJobStore, init_db() on the tables that assistant.db already has
restart ==
    /\ started_at < now
    /\ jobs' = job_store_at_start(jobs)
    /\ started_at' = now
    /\ UNCHANGED <<now, app, USE_AI, users, reminders, goals, conversations, redis,
                   sent, reply, threads, arg, ret>>

NextDeployed ==
    \/ \E p \in Recipients, m \in DeployedInbox : whatsapp_webhook(p, m)
    \/ \E j \in jobs : run_job(j)
    \/ Tick
    \/ restart

SpecDeployed == InitDeployed /\ [][NextDeployed]_vars

\* SpecHours: the deployed mvp_bot.py sent the bodies of HourInbox
NextHours ==
    \/ \E p \in Phones, m \in HourInbox : whatsapp_webhook(p, m)
    \/ \E j \in jobs : run_job(j)
    \/ Tick

SpecHours == InitDeployed /\ [][NextHours]_vars

-----------------------------------------------------------------------------
(* SpecSession: appv1.py, requests served by concurrent threads, each inside *)
(* one operation of UserSession on the hash user:<phone>                     *)

\* set_assistant_name(name), set_language(lang), and the update of
\* last_interaction in whatsapp_webhook
SessionOps ==
    {[op |-> "set_assistant_name", val |-> "Raj"],
     [op |-> "set_assistant_name", val |-> "Max"],
     [op |-> "set_language", val |-> "hi"],
     [op |-> "last_interaction", val |-> ""]}

\* the dict get_data builds for a new user; it has no 'last_interaction'
NewSession == [exists |-> TRUE, language |-> "en", assistant_name |-> "Assistant",
               last_interaction |-> 0]

\* redis_client.hset(key, mapping=data): every field of data is written, a
\* field data does not have (last_interaction 0) is left as it is
hset_mapping(row, data) ==
    [data EXCEPT !.exists = TRUE,
                 !.last_interaction = IF @ = 0 THEN row.last_interaction ELSE @]

\* data with the field of the operation assigned
assigned(data, op, val, t) ==
    CASE op = "set_assistant_name" -> [data EXCEPT !.assistant_name = val]
      [] op = "set_language" -> [data EXCEPT !.language = val]
      [] op = "last_interaction" -> [data EXCEPT !.last_interaction = t]

InitSession ==
    /\ now = StartClock
    /\ app = "appv1"
    /\ USE_AI = FALSE
    /\ installed
    /\ arg = NoRequest
    /\ ret = NotDone

\* a request thread enters an operation of UserSession(phone)
session_enter(t, phone, o) ==
    /\ threads[t].pc = "idle"
    /\ threads' = [threads EXCEPT ![t] = [pc |-> "get_data", op |-> o.op, val |-> o.val,
                                          phone |-> phone, data |-> NoSession]]
    /\ UNCHANGED <<now, app, USE_AI, users, reminders, goals, conversations, redis,
                   jobs, sent, reply, started_at, arg, ret>>

\* get_data: "data = redis_client.hgetall(self.key); if not data: data = {...}"
session_hgetall(t) ==
    /\ threads[t].pc = "get_data"
    /\ LET row == redis.sessions[threads[t].phone]
       IN threads' = [threads EXCEPT
                        ![t].data = IF row.exists THEN row ELSE NewSession,
                        ![t].pc = IF row.exists THEN "save_data" ELSE "initialise"]
    /\ UNCHANGED <<now, app, USE_AI, users, reminders, goals, conversations, redis,
                   jobs, sent, reply, started_at, arg, ret>>

\* get_data: "self.save_data(data)" for a new user
session_initialise(t) ==
    /\ threads[t].pc = "initialise"
    /\ redis' = [redis EXCEPT !.sessions[threads[t].phone] =
                                  hset_mapping(@, threads[t].data)]
    /\ threads' = [threads EXCEPT ![t].pc = "save_data"]
    /\ UNCHANGED <<now, app, USE_AI, users, reminders, goals, conversations,
                   jobs, sent, reply, started_at, arg, ret>>

\* "data[field] = value; self.save_data(data)"
session_save_data(t) ==
    /\ threads[t].pc = "save_data"
    /\ redis' = [redis EXCEPT !.sessions[threads[t].phone] =
                    hset_mapping(@, assigned(threads[t].data, threads[t].op,
                                             threads[t].val, now))]
    /\ threads' = [threads EXCEPT ![t].pc = "done"]
    /\ UNCHANGED <<now, app, USE_AI, users, reminders, goals, conversations,
                   jobs, sent, reply, started_at, arg, ret>>

NextSession ==
    \/ \E t \in Threads, p \in Phones, o \in SessionOps : session_enter(t, p, o)
    \/ \E t \in Threads : session_hgetall(t)
    \/ \E t \in Threads : session_initialise(t)
    \/ \E t \in Threads : session_save_data(t)

SpecSession == InitSession /\ [][NextSession]_vars

-----------------------------------------------------------------------------
(* SpecUsers: mvp_bot.py, requests served by concurrent threads, each inside *)
(* PersonalAssistant(from_number) and, for a naming message, the UPDATE of   *)
(* update_assistant_name                                                     *)

\* one more request than SpecSession has threads
Requests == 1..(MaxThreads + 1)

\* what a request goes on to do once its PersonalAssistant is constructed
UserOps ==
    {[op |-> "message", val |-> ""],
     [op |-> "update_assistant_name", val |-> "Raj"],
     [op |-> "update_assistant_name", val |-> "Max"]}

InitUsers ==
    /\ now = StartClock
    /\ app = "mvp_bot"
    /\ USE_AI = FALSE
    /\ users = [p \in Phones |-> NoUser]
    /\ reminders = <<>>
    /\ goals = <<>>
    /\ conversations = 0
    /\ redis = [sessions |-> [p \in Phones |-> NoSession], hashes |-> {}]
    /\ jobs = {}
    /\ sent = <<>>
    /\ reply = NoReply
    /\ threads = [t \in Requests |-> Idle]
    /\ started_at = now
    /\ arg = NoRequest
    /\ ret = NotDone

\* whatsapp_webhook: "assistant = PersonalAssistant(from_number)"
user_enter(t, phone, o) ==
    /\ threads[t].pc = "idle"
    /\ threads' = [threads EXCEPT ![t] = [Idle EXCEPT !.pc = "select", !.op = o.op,
                                                      !.val = o.val, !.phone = phone]]
    /\ UNCHANGED <<now, app, USE_AI, users, reminders, goals, conversations, redis,
                   jobs, sent, reply, started_at, arg, ret>>

\* get_or_create_user: "SELECT * FROM users WHERE phone_number = ?; user = c.fetchone()"
user_select(t) ==
    /\ threads[t].pc = "select"
    /\ threads' = [threads EXCEPT ![t].pc =
                      IF ~users[threads[t].phone].exists THEN "insert"
                      ELSE IF threads[t].op = "update_assistant_name" THEN "update"
                      ELSE "done"]
    /\ UNCHANGED <<now, app, USE_AI, users, reminders, goals, conversations, redis,
                   jobs, sent, reply, started_at, arg, ret>>

\* get_or_create_user: "INSERT INTO users ...; conn.commit()"; phone_number is the
\* PRIMARY KEY of users (init_db), so the INSERT of a number that has a row
\* raises sqlite3.IntegrityError out of the constructor
user_insert(t) ==
    /\ threads[t].pc = "insert"
    /\ users' = get_or_create_user(users, threads[t].phone)
    /\ threads' = [threads EXCEPT ![t].pc =
                      IF users[threads[t].phone].exists THEN "raised"
                      ELSE IF threads[t].op = "update_assistant_name" THEN "update"
                      ELSE "done"]
    /\ UNCHANGED <<now, app, USE_AI, reminders, goals, conversations, redis,
                   jobs, sent, reply, started_at, arg, ret>>

\* update_assistant_name: "UPDATE users SET assistant_name = ? WHERE phone_number = ?"
user_update(t) ==
    /\ threads[t].pc = "update"
    /\ users' = [users EXCEPT ![threads[t].phone].assistant_name = threads[t].val]
    /\ threads' = [threads EXCEPT ![t].pc = "done"]
    /\ UNCHANGED <<now, app, USE_AI, reminders, goals, conversations, redis,
                   jobs, sent, reply, started_at, arg, ret>>

NextUsers ==
    \/ \E t \in Requests, p \in Phones, o \in UserOps : user_enter(t, p, o)
    \/ \E t \in Requests : user_select(t)
    \/ \E t \in Requests : user_insert(t)
    \/ \E t \in Requests : user_update(t)

SpecUsers == InitUsers /\ [][NextUsers]_vars

-----------------------------------------------------------------------------
(* Claims about the scheduler and the lifecycles                            *)

Dispatches == 1..Len(sent)

\* every registration still pending or already run
Registrations == jobs \cup {sent[i].job : i \in Dispatches}

\* a job id fixes the run_date: the reminder ids are built from the recipient
\* and the instant, the check-in ids from a fresh goal id and the ordinal
JobIdFixesRunDate ==
    \A x, y \in Registrations : x.id = y.id => x.run_date = y.run_date

\* reminder rows of one recipient for one instant
SameInstantRows(a, b) ==
    /\ a # b
    /\ reminders[a].phone_number = reminders[b].phone_number
    /\ reminders[a].reminder_time = reminders[b].reminder_time

\* C2: at most one dispatch ever occurs for a job id; two reminders of one
\* recipient for one instant share the job id (recipient + instant), of which
\* at most one job is pending and at most one dispatch occurs.
C2_OneDispatchPerJobId ==
    app = "mvp_bot" =>
      /\ \A i, k \in Dispatches : sent[i].job.id = sent[k].job.id => i = k
      /\ \A a, b \in 1..Len(reminders) :
           SameInstantRows(a, b) =>
             LET id == reminder_job_id(reminders[a].phone_number,
                                       reminders[a].reminder_time)
             IN /\ Cardinality({j \in jobs : j.id = id}) <= 1
                /\ Cardinality({i \in Dispatches : sent[i].job.id = id}) <= 1

\* two reminders for 5 pm were taken, and the one job they share has run
C2_Witness ==
    /\ app = "mvp_bot"
    /\ \E a, b \in 1..Len(reminders) :
         /\ SameInstantRows(a, b)
         /\ reminders[a].task # reminders[b].task
         /\ LET id == reminder_job_id(reminders[a].phone_number,
                                      reminders[a].reminder_time)
            IN /\ Cardinality({i \in Dispatches : sent[i].job.id = id}) = 1
               /\ ~\E j \in jobs : j.id = id

\* C3: no job, reminder or goal check-in, is dispatched at a clock reading
\* earlier than the run_date of its registration.
C3_NeverBeforeFireInstant ==
    app = "mvp_bot" => \A i \in Dispatches : sent[i].at >= sent[i].job.run_date

\* a reminder and a goal check-in have both been dispatched
C3_Witness ==
    /\ app = "mvp_bot"
    /\ \E i \in Dispatches : sent[i].job.func = "send_reminder"
    /\ \E i \in Dispatches : sent[i].job.func = "send_goal_checkin"
                             /\ sent[i].at >= sent[i].job.run_date

\* the goal row a check-in job belongs to
GoalOfJob(job) ==
    {g \in 1..Len(goals) :
        \E i \in 0..2 : job.id = goal_job_id(goals[g].phone_number, g, i)}

\* C4: once a goal is marked completed, no check-in job of that goal that
\* fires afterwards sends a check-in message.
C4_NoCheckinAfterCompletion ==
    [][(app = "mvp_bot" /\ Len(sent') > Len(sent)
          /\ sent'[Len(sent')].delivered
          /\ sent'[Len(sent')].job.func = "send_goal_checkin")
        => \A g \in GoalOfJob(sent'[Len(sent')].job) : ~goals[g].completed]_vars

\* messages in which neither time pattern of mvp_bot.py is found
NoTimePattern ==
    [m \in MvpInbox |-> ~time_match(m).ok /\ ~relative_match(Lower(m)).ok]

\* the step is a webhook request served by handle_reminder of mvp_bot.py, and
\* neither pattern matches the message
MvpUnparsedReminder ==
    /\ app = "mvp_bot"
    /\ conversations' # conversations
    /\ branch_memo[arg'.body] = "reminder"
    /\ reply'.kind # "ai"
    /\ NoTimePattern[arg'.body]

\* the step is a webhook request of appv1.py with intent 'reminder', and the
\* time pattern of the session language does not match the message
V1UnparsedReminder ==
    /\ app = "appv1"
    /\ conversations' # conversations
    /\ LET lang == redis'.sessions[arg'.from].language
       IN /\ v1_intent_memo[arg'.body, lang] = "reminder"
          /\ ~v1_time_search(arg'.body, 1, lang).ok

\* C8: when no time pattern matches a reminder message nothing is scheduled:
\* no job is registered, no reminder record is created (no row in mvp_bot.py,
\* no hash in appv1.py), and the reply asks for the missing detail.
C8_ParseFailureSchedulesNothing ==
    [][/\ MvpUnparsedReminder =>
            /\ jobs' = jobs
            /\ reminders' = reminders
            /\ reply' = [to |-> arg'.from, kind |-> "need_more_details"]
       /\ V1UnparsedReminder =>
            /\ jobs' = jobs
            /\ redis'.hashes = redis.hashes
            /\ reply' = [to |-> arg'.from, kind |-> "specify_time"]]_vars

\* "remind me to call mom" was answered with the request for details
C8_Witness ==
    /\ app = "mvp_bot"
    /\ arg.body = "remind me to call mom"
    /\ reply = [to |-> arg.from, kind |-> "need_more_details"]
    /\ jobs = {}
    /\ reminders = <<>>

C8_WitnessV1 ==
    /\ app = "appv1"
    /\ arg.body = "remind me to call mom"
    /\ reply = [to |-> arg.from, kind |-> "specify_time"]
    /\ jobs = {}
    /\ redis.hashes = {}

-----------------------------------------------------------------------------
(* Claims about acknowledgements (mvp_bot.py: handle_completion)            *)

\* the step is a webhook request served by handle_completion of mvp_bot.py
MvpCompletion ==
    /\ app = "mvp_bot"
    /\ conversations' # conversations
    /\ branch_memo[arg'.body] = "completion"
    /\ reply'.kind # "ai"

\* rows of the recipient not completed before the step
PendingReminders == open_reminders([reminders |-> reminders], arg'.from)
PendingGoals == open_goals([goals |-> goals], arg'.from)

\* rows the step marks completed
CompletedReminders ==
    {i \in 1..Len(reminders) : ~reminders[i].completed /\ reminders'[i].completed}
CompletedGoals ==
    {g \in 1..Len(goals) : ~goals[g].completed /\ goals'[g].completed}

\* the pending reminder of the recipient created last
LastCreatedReminder ==
    CHOOSE i \in PendingReminders :
        \A k \in PendingReminders : reminders[k].created_at <= reminders[i].created_at

\* the message holds "done" and names no task
BareDone(body) == Contains(Lower(body), "done") /\ ~done_match(Lower(body))

\* C11: a "done" that names no task, from a recipient with several pending
\* reminders, marks completed the pending reminder created last and no other.
C11_DoneCompletesLastCreated ==
    [][(MvpCompletion /\ BareDone(arg'.body) /\ Cardinality(PendingReminders) >= 2)
        => CompletedReminders = {LastCreatedReminder}]_vars

\* C12: handle_completion completes a pending reminder of the recipient if
\* there is one, else a pending goal if there is one, else changes no record
\* and answers without an error.
C12_ReminderThenGoalThenNeutral ==
    [][MvpCompletion =>
         /\ PendingReminders # {} =>
               /\ Cardinality(CompletedReminders) = 1
               /\ CompletedReminders \subseteq PendingReminders
               /\ goals' = goals
         /\ (PendingReminders = {} /\ PendingGoals # {}) =>
               /\ Cardinality(CompletedGoals) = 1
               /\ CompletedGoals \subseteq PendingGoals
               /\ reminders' = reminders
         /\ (PendingReminders = {} /\ PendingGoals = {}) =>
               /\ reminders' = reminders
               /\ goals' = goals
               /\ ret' = Done(200)
               /\ reply'.kind # "oops"]_vars

\* pending reminders of the recipient whose task text holds the named task
NamedReminders ==
    {i \in PendingReminders :
        Contains(Lower(reminders[i].task), done_task(Lower(arg'.body)))}

\* C18: a "done with X" whose X is contained in the task text of a pending
\* reminder of the recipient marks such a reminder completed.
C18_NamedTaskCompletesReminder ==
    [][(MvpCompletion /\ done_match(Lower(arg'.body)) /\ NamedReminders # {})
        => \E i \in NamedReminders : reminders'[i].completed]_vars


-----------------------------------------------------------------------------
(* Claims about what a creation registers                                   *)

\* registrations, pending or run, that send the task of reminder row i to its
\* recipient at its instant
JobsOfReminder(i) ==
    {j \in Registrations :
        /\ j.func = "send_reminder"
        /\ j.to = reminders[i].phone_number
        /\ j.text = reminders[i].task
        /\ j.run_date = reminders[i].reminder_time}

\* C13: every stored reminder has a job of its own, pending or already run,
\* whose invocation sends the task text of that reminder to its recipient.
C13_EachReminderHasItsJob ==
    app = "mvp_bot" => \A i \in 1..Len(reminders) : JobsOfReminder(i) # {}

\* the step is a webhook request of mvp_bot.py in which handle_goal stored a goal
GoalCreated ==
    /\ app = "mvp_bot"
    /\ conversations' # conversations
    /\ reply'.kind = "goal_set"

\* recipients, goal ids and ordinals over which the check-in ids are compared
IdPhones == {"+15550001", "+15550002", "+1555000"}
IdGoals == {1, 2, 11, 12}

\* goal_job_id is one-to-one in (recipient, goal id, ordinal)
CheckinIdsOneToOne ==
    \A p, q \in IdPhones, g, h \in IdGoals, i, k \in 0..2 :
        goal_job_id(p, g, i) = goal_job_id(q, h, k) => (p = q /\ g = h /\ i = k)

-----------------------------------------------------------------------------
(* Claims about failures                                                    *)

\* the step is a job run whose payload was invoked
JobInvoked == Len(sent') > Len(sent)

\* C15: when the outbound send of a job invocation fails the job is gone from
\* the store (not retried, not re-queued), the request path (reply, status,
\* tables, session) is untouched, and no job id once dispatched with a failed
\* send is dispatched again.
C15_FailedSendIsDiscarded ==
    [][/\ (JobInvoked /\ ~sent'[Len(sent')].delivered) =>
            /\ ~\E j \in jobs' : j.id = sent'[Len(sent')].job.id
            /\ jobs' \subseteq jobs
            /\ UNCHANGED <<users, reminders, goals, conversations, redis, reply,
                           arg, ret>>
       /\ JobInvoked =>
            ~\E i \in Dispatches : /\ sent[i].job.id = sent'[Len(sent')].job.id
                                    /\ ~sent[i].delivered]_vars

\* a send failed, and the scheduler went on to run another job
C15_Witness ==
    \E i, k \in Dispatches :
        /\ i < k
        /\ ~sent[i].delivered
        /\ ~\E j \in jobs : j.id = sent[i].job.id


-----------------------------------------------------------------------------
(* Claims about the user profile                                            *)

\* C16: once the row of a recipient exists in table users it is never deleted
\* and its timezone never changes, whatever message is served.
C16_ProfileKeepsTimezone ==
    [][\A p \in Phones :
         users[p].exists => /\ users'[p].exists
                            /\ users'[p].timezone = users[p].timezone]_vars

\* the recipient renamed the assistant, then created a reminder, and the row
\* still holds the zone detected on first contact
C16_Witness ==
    /\ app = "mvp_bot"
    /\ \E p \in Phones :
         /\ users[p].exists
         /\ users[p].assistant_name = "Max"
         /\ users[p].timezone = detect_timezone(p)
         /\ \E i \in 1..Len(reminders) : reminders[i].phone_number = p


-----------------------------------------------------------------------------
(* Claims about the outbound reply                                          *)

\* the body made of lines a+1..b of the reply, marked or not
BodyOfLines(a, b, marked) ==
    text_concat(text_strip(text_join(arg.lines, a + 1, b)),
                IF marked THEN Marker ELSE <<>>)

\* C17: a reply longer than the budget of 1600 characters is sent as two or
\* more bodies; taken in order they are made of consecutive whole lines of the
\* reply (white space at the ends of a chunk stripped), every line in exactly
\* one of them, and every body but the last ends with the continuation marker,
\* which the last does not carry.
C17_ChunksAreWholeLines ==
    (Returned("reply_bodies") /\ text_len(arg.text) > CHUNK_BUDGET) =>
        LET m == Len(ret.val)
            n == Len(arg.lines)
        IN /\ m >= 2
           /\ \E cuts \in [0..m -> 0..n] :
                /\ cuts[0] = 0
                /\ cuts[m] = n
                /\ \A k \in 1..m :
                     /\ cuts[k - 1] <= cuts[k]
                     /\ ret.val[k] = BodyOfLines(cuts[k - 1], cuts[k], k < m)

\* three lines, the second blank, were sent as two bodies
C17_Witness ==
    /\ Returned("reply_bodies")
    /\ text_len(arg.text) > CHUNK_BUDGET
    /\ Len(arg.lines) = 3
    /\ arg.lines[1] # <<>>
    /\ arg.lines[2] = <<>>
    /\ arg.lines[3] # <<>>
    /\ Len(ret.val) = 2


-----------------------------------------------------------------------------
(* Claims about duplicate job ids                                           *)

\* the step is a reminder request of mvp_bot.py whose job id is that of a
\* pending job
MvpDuplicateId ==
    /\ app = "mvp_bot"
    /\ conversations' # conversations
    /\ branch_memo[arg'.body] = "reminder"
    /\ reply'.kind # "ai"
    /\ LET pr == parse_memo[arg'.body, now]
       IN /\ pr.kind = "ok"
          /\ pr.task # ""
          /\ \E j \in jobs : j.id = reminder_job_id(arg'.from, pr.time)

\* the step is a reminder request of appv1.py whose job id, for some sub-minute
\* part of the clock reading, is that of a pending job
V1DuplicateId ==
    /\ app = "appv1"
    /\ conversations' # conversations
    /\ LET lang == redis'.sessions[arg'.from].language
           pr == v1_parse_memo[arg'.body, lang, now]
       IN /\ v1_intent_memo[arg'.body, lang] = "reminder"
          /\ pr.kind = "ok"
          /\ \E us \in Micros, j \in jobs : j.id = v1_job_id(arg'.from, pr.time, us)

\* C19: a reminder request whose job id equals that of a pending job does not
\* fail: it ends with status 200 and the confirmation of the reminder.
C19_DuplicateIdNeverSurfaces ==
    [][(MvpDuplicateId \/ V1DuplicateId)
        => /\ ret' = Done(200)
           /\ reply' = [to |-> arg'.from, kind |-> "reminder_set"]]_vars

\* C19 for mvp_bot.py alone
C19_mvp_only ==
    [][MvpDuplicateId => /\ ret' = Done(200)
                         /\ reply' = [to |-> arg'.from, kind |-> "reminder_set"]]_vars


-----------------------------------------------------------------------------
(* Claims about concurrent operations of UserSession                        *)

\* the field an operation writes, and the value the hash holds for it
FieldOf(t) == threads[t].op
Held(t) ==
    LET row == redis.sessions[threads[t].phone]
    IN CASE threads[t].op = "set_assistant_name" -> row.assistant_name = threads[t].val
         [] threads[t].op = "set_language" -> row.language = threads[t].val
         [] threads[t].op = "last_interaction" -> row.last_interaction = now

\* C20: when all concurrent operations on the profile of a recipient have
\* finished, the profile holds the value written by every operation whose
\* field no other operation wrote.
C20_NoLostUpdate ==
    (\A t \in Threads : threads[t].pc = "done") =>
        \A t \in Threads :
            (\A u \in Threads \ {t} : FieldOf(u) # FieldOf(t)) => Held(t)


-----------------------------------------------------------------------------
(* Claims about concurrent first contacts                                   *)

\* C21: however the messages of one recipient interleave, the recipient has
\* at most one profile row, has one as soon as a request got past
\* get_or_create_user, and get_or_create_user raises in no request.
C21_OneProfileEveryLookupSucceeds ==
    /\ \A t \in DOMAIN threads : threads[t].pc # "raised"
    /\ \A t \in DOMAIN threads :
          threads[t].pc \in {"update", "done"} => users[threads[t].phone].exists


-----------------------------------------------------------------------------
(* Claims about the absolute-clock hour                                      *)

\* the 24-hour form the rule gives for the hour and period of the input
RuleHour ==
    IF Lower(arg.abs.period) = "pm" /\ arg.abs.h # 12 THEN arg.abs.h + 12
    ELSE IF Lower(arg.abs.period) = "am" /\ arg.abs.h = 12 THEN 0
    ELSE arg.abs.h

\* an English absolute-clock input parsed to an instant by either parser
AbsoluteParsed(fn) ==
    /\ Returned(fn)
    /\ arg.lang = "en"
    /\ arg.rel = NoRel
    /\ arg.abs # NoAbs
    /\ ret.val.kind = "ok"

\* C22: the instant parsed from "at H am|pm" lies at the hour the rule gives
\* (PM adds 12 unless H is 12, 12 AM is hour 0, any other hour is unchanged)
\* with minute 0; stated of both parsers (mvp_bot.py and appv1.py).
C22_HourIn24HourForm ==
    \A fn \in {"parse_reminder", "v1_parse_reminder"} :
        AbsoluteParsed(fn) => ret.val.time % 1440 = RuleHour * 60

\* the part of C22 that mvp_bot.py alone is held to
C22_mvp_only ==
    AbsoluteParsed("parse_reminder") => ret.val.time % 1440 = RuleHour * 60


-----------------------------------------------------------------------------
(* Claims about a named weekday                                              *)

\* the input names a weekday and the parser gave an instant
WeekdayParsed(fn) ==
    /\ Returned(fn)
    /\ "day" \in DOMAIN arg
    /\ \E k \in 1..Len(days) : days[k] = arg.day
    /\ ret.val.kind = "ok"

\* days from the date of now to the date of the returned instant
DaysAdvanced == (ret.val.time \div 1440) - (now \div 1440)

\* C23: for a text that names a weekday, the date of the parsed instant is the
\* next occurrence of that weekday, 1 to 7 days after today, and 7 days when
\* today is the named weekday; stated of the calendar parser of appv1.py and
\* of parse_reminder of mvp_bot.py.
C23_NextOccurrenceOfWeekday ==
    \A fn \in {"parse_calendar_command", "parse_reminder"} :
        WeekdayParsed(fn) =>
            /\ DaysAdvanced \in 1..7
            /\ days[((ret.val.time \div 1440) % 7) + 1] = arg.day
            /\ (days[((now \div 1440) % 7) + 1] = arg.day => DaysAdvanced = 7)

\* the part of C23 that the calendar parser alone is held to
C23_calendar_only ==
    WeekdayParsed("parse_calendar_command") =>
        /\ DaysAdvanced \in 1..7
        /\ days[((ret.val.time \div 1440) % 7) + 1] = arg.day
        /\ (days[((now \div 1440) % 7) + 1] = arg.day => DaysAdvanced = 7)


-----------------------------------------------------------------------------
(* Claims about an hour outside 1..12                                        *)

\* the last request was the message body, and it has been answered
Answered(body) ==
    /\ ret.done
    /\ arg.fn = "whatsapp_webhook"
    /\ arg.body = body

\* the request ended normally with the reminder stored at hour h of a day
StoredAtHour(h) ==
    /\ ret.val = 200
    /\ reply = [to |-> arg.from, kind |-> "reminder_set"]
    /\ Len(reminders) > 0
    /\ reminders[Len(reminders)].phone_number = arg.from
    /\ reminders[Len(reminders)].reminder_time % 1440 = h * 60

\* C24: a message whose clock hour is outside 1..12 ("at 13 am", "at 13 pm")
\* is processed without failure: the request ends normally with the reply of
\* a stored reminder, whose instant carries the hour as the parser computed
\* it (13 for 13 am, 13 + 12 wrapped into the next day for 13 pm).
C24_HourOutsideRangeAccepted ==
    /\ Answered("remind me at 13 am to call mom") => StoredAtHour(13)
    /\ Answered("remind me at 13 pm to call mom") => StoredAtHour(1)

\* the part of C24 that holds: an hour the day has (13 am) is taken as given
C24_HourOfTheDayAccepted ==
    Answered("remind me at 13 am to call mom") => StoredAtHour(13)


-----------------------------------------------------------------------------
(* Claims about a restart                                                    *)

\* C25: with the in-memory job store, a job registered before the last start
\* of the process is neither in the store nor dispatched after that start,
\* and the restart itself empties the store while it leaves the reminder and
\* goal rows, pending ones included, as they are.
C25_RestartLosesJobs ==
    /\ [](/\ \A j \in jobs : j.added_at >= started_at
          /\ \A k \in 1..Len(sent) :
                sent[k].at >= started_at => sent[k].job.added_at >= started_at)
    /\ [][started_at' # started_at =>
            /\ jobs # {} => jobs' = {}
            /\ reminders' = reminders
            /\ goals' = goals]_vars

\* after a restart the fire-instant of a pending reminder created before it
\* has passed, the store is empty and the reminder was never dispatched
C25_Witness ==
    /\ started_at > StartClock
    /\ jobs = {}
    /\ \E i \in 1..Len(reminders) :
          /\ ~reminders[i].completed
          /\ reminders[i].created_at < started_at
          /\ reminders[i].reminder_time < now
          /\ \A k \in 1..Len(sent) : sent[k].job.run_date # reminders[i].reminder_time


-----------------------------------------------------------------------------
(* Claims about firing and completion                                        *)

\* C26: the run of a job changes no reminder row, so a fired reminder keeps
\* its completed flag; the flag of a reminder changes only from not completed
\* to completed, and only in a request of its own recipient that is served by
\* handle_completion. Without such a request the reminder stays pending.
C26_FiringCompletesNothing ==
    [][/\ JobInvoked => reminders' = reminders
       /\ \A i \in 1..Len(reminders) :
             reminders'[i].completed # reminders[i].completed =>
                 /\ ~reminders[i].completed
                 /\ MvpCompletion
                 /\ arg'.from = reminders[i].phone_number]_vars

\* a reminder was sent at its fire-instant and is still pending afterwards
C26_Witness ==
    \E k \in 1..Len(sent), i \in 1..Len(reminders) :
        /\ sent[k].job.func = "send_reminder"
        /\ sent[k].delivered
        /\ sent[k].job.to = reminders[i].phone_number
        /\ sent[k].job.run_date = reminders[i].reminder_time
        /\ sent[k].at < now
        /\ ~reminders[i].completed


-----------------------------------------------------------------------------
(* Claims about the status query                                             *)

\* the phrases of the status branch
StatusPhrases == <<"show my reminders", "my reminders", "show reminders", "show status",
                   "my tasks", "what do i have", "whats pending", "pending">>

\* the messages that hold a status phrase and the word "remind"
StatusBodies ==
    {m \in DeployedInbox : /\ ContainsAny(Lower(m), StatusPhrases)
                           /\ Contains(Lower(m), "remind")}

\* the step serves such a message
StatusRequest ==
    /\ conversations' # conversations
    /\ arg'.body \in StatusBodies

\* C27: a message that holds a status phrase is answered by the status query
\* although it holds "remind": no reminder, goal or job is created and no
\* completed flag changes.
C27_StatusBeforeReminder ==
    [][StatusRequest =>
          /\ reply'.kind = "status"
          /\ reminders' = reminders
          /\ goals' = goals
          /\ jobs' = jobs]_vars

\* "show my reminders" was answered with the status of a recipient who has a
\* pending reminder
C27_Witness ==
    /\ Answered("show my reminders")
    /\ reply = [to |-> arg.from, kind |-> "status"]
    /\ \E i \in 1..Len(reminders) :
          reminders[i].phone_number = arg.from /\ ~reminders[i].completed


-----------------------------------------------------------------------------
(* Claims about the completed flag                                           *)

\* C28: a completed reminder or goal stays as it is in every step (message or
\* job run), and an acknowledgement that names no task and is answered as a
\* completion has turned exactly one record from pending to completed: it
\* never lands on a record that was completed before.
C28_CompletedIsMonotonic ==
    [][/\ \A i \in 1..Len(reminders) :
             reminders[i].completed => reminders'[i] = reminders[i]
       /\ \A g \in 1..Len(goals) :
             goals[g].completed => goals'[g] = goals[g]
       /\ (MvpCompletion /\ reply'.kind = "completed" /\ ~done_match(Lower(arg'.body)))
             => Cardinality(CompletedReminders) + Cardinality(CompletedGoals) = 1]_vars

\* a second "done" of a recipient whose only reminder is completed already
C28_Witness ==
    /\ Answered("done")
    /\ reply = [to |-> arg.from, kind |-> "ask_completed"]
    /\ \E i \in 1..Len(reminders) :
          reminders[i].phone_number = arg.from /\ reminders[i].completed


-----------------------------------------------------------------------------
(* Claims about the reach of an acknowledgement                              *)

\* C29: a request served by handle_completion turns the completed flag of at
\* most one record, that record belongs to the sender, and every reminder and
\* goal of another recipient is after the step what it was before.
C29_AcknowledgementIsLocal ==
    [][MvpCompletion =>
          /\ Cardinality(CompletedReminders) + Cardinality(CompletedGoals) <= 1
          /\ \A i \in CompletedReminders : reminders[i].phone_number = arg'.from
          /\ \A g \in CompletedGoals : goals[g].phone_number = arg'.from
          /\ \A i \in 1..Len(reminders) :
                reminders[i].phone_number # arg'.from => reminders'[i] = reminders[i]
          /\ \A g \in 1..Len(goals) :
                goals[g].phone_number # arg'.from => goals'[g] = goals[g]]_vars

\* "done" completed a reminder of its sender while the other recipient has a
\* pending reminder
C29_Witness ==
    /\ Answered("done")
    /\ reply = [to |-> arg.from, kind |-> "completed"]
    /\ \E i \in 1..Len(reminders) :
          reminders[i].phone_number = arg.from /\ reminders[i].completed
    /\ \E i \in 1..Len(reminders) :
          reminders[i].phone_number # arg.from /\ ~reminders[i].completed


-----------------------------------------------------------------------------
(* Claims about jobs and their records                                       *)

\* the reminder job has a row of table reminders with its recipient and instant
HasRecord(j) ==
    \E i \in 1..Len(reminders) :
        /\ reminders[i].phone_number = j.to
        /\ reminders[i].reminder_time = j.run_date

\* C30: in mvp_bot.py every reminder job in the store has a stored reminder
\* with the same recipient and fire-instant, whichever path (patterns or AI
\* actions) served the messages.
C30_EveryJobHasItsRecord ==
    app = "mvp_bot" =>
        \A j \in jobs : j.func = "send_reminder" => HasRecord(j)

\* the part of C30 that holds: the pattern path alone
C30_patterns_only ==
    (app = "mvp_bot" /\ ~USE_AI) =>
        \A j \in jobs : j.func = "send_reminder" => HasRecord(j)

=============================================================================
